---------------------------- MODULE Spec2Model ----------------------------
(***************************************************************************)
(* A model of logiflet's circuit graph (circuit_model.py), its components  *)
(* (components/*.py) and its simulation engine (simulation_engine.py).     *)
(*                                                                         *)
(* Python objects are modelled as a heap: component objects are the        *)
(* indices of comp, Pin objects are the pairs <<component, pin name>>,     *)
(* Wire objects are the indices of wire.  The Circuit's two dicts are      *)
(* sequences of [key, obj] entries, in insertion order as Python dicts.    *)
(***************************************************************************)
EXTENDS Integers, Sequences, FiniteSets, TLC

VARIABLES
    comp,      \* component objects: [kind, id, pins, attrs]
    pin,       \* Pin objects: [name, pin_type, position, signal, bit_width,
               \* connected_wires]
    wire,      \* Wire objects: [wire_id, start_pin, end_pin, signal], or NoWire
    circuit,   \* Circuit: [components, wires, next_component_id, next_wire_id]
    sim,       \* SimulationEngine: [tick_count, running, propagation_queue,
               \* evaluated_components]
    call,      \* the last call made and what it was observed to do
    hist       \* history of the calls: [since, edges], see NoHistory

vars == <<comp, pin, wire, circuit, sim, call, hist>>

-----------------------------------------------------------------------------
(* Bounds of the model *)

\* utils/constants.py is not among the sources: the iteration bound of
\* SimulationEngine._evaluate_circuit is a parameter of the model.
SIM_MAX_PROPAGATION_DEPTH == 3

\* Wire objects a caller constructs in the graph specification.
MaxWireObjs == 2

\* step() calls counted since the sources were last set.
MaxStepsCounted == 2

-----------------------------------------------------------------------------
(* Signal, PinType: circuit_model.py *)

LOW == "LOW"
HIGH == "HIGH"
UNKNOWN == "UNKNOWN"
HIGHZ == "HIGHZ"
SignalState == {LOW, HIGH, UNKNOWN, HIGHZ}

INPUT == "input"
OUTPUT == "output"

\* Signal.from_bool: the state decides bit_width (1) and value (1 iff HIGH),
\* so a Signal is modelled by its state.
from_bool(value) == IF value THEN HIGH ELSE LOW

NoWire == [wire_id |-> "<none>"]
NoExc == "none"

-----------------------------------------------------------------------------
(* Ordered dicts *)

DictKeys(d) == {d[i].key : i \in 1..Len(d)}
DictHas(d, k) == \E i \in 1..Len(d) : d[i].key = k
DictGet(d, k) == LET i == CHOOSE j \in 1..Len(d) : d[j].key = k IN d[i].obj
DictObjs(d) == {d[i].obj : i \in 1..Len(d)}

\* d[k] = v: a key already present keeps its position.
DictSet(d, k, v) ==
    IF DictHas(d, k)
    THEN [i \in 1..Len(d) |-> IF d[i].key = k THEN [key |-> k, obj |-> v] ELSE d[i]]
    ELSE Append(d, [key |-> k, obj |-> v])

\* del d[k]
DictDel(d, k) == SelectSeq(d, LAMBDA e : e.key # k)

-----------------------------------------------------------------------------
(* The pins each component kind creates in _setup_pins, in creation order:  *)
(* name, type and the position relative to the component.                   *)

Pn(name, type, x, y) == [name |-> name, pin_type |-> type, x |-> x, y |-> y]

InName(i) == "in" \o ToString(i)
DName(i) == "D" \o ToString(i)
QName(i) == "Q" \o ToString(i)
PinName(prefix, i) == prefix \o ToString(i)

\* 2^i
RECURSIVE Pow2(_)
Pow2(i) == IF i = 0 THEN 1 ELSE 2 * Pow2(i - 1)

GatePins(n) ==
    [i \in 1..n |-> Pn(InName(i - 1), INPUT, 0, IF n > 1 THEN 10 + (i - 1) * 20 ELSE 20)]
    \o <<Pn("out", OUTPUT, 60, 20)>>

RegisterPins(n) ==
    [i \in 1..n |-> Pn(DName(i - 1), INPUT, 0, 10 + (i - 1) * 10)]
    \o <<Pn("CLK", INPUT, 0, 10 + n * 10)>>
    \o [i \in 1..n |-> Pn(QName(i - 1), OUTPUT, 80, 10 + (i - 1) * 10)]

DecoderPins(n) ==
    [i \in 1..n |-> Pn(PinName("I", i - 1), INPUT, 0, 10 + (i - 1) * 15)]
    \o [i \in 1..Pow2(n) |-> Pn(PinName("O", i - 1), OUTPUT, 80, 10 + (i - 1) * 15)]

ComparatorPins(n) ==
    [i \in 1..n |-> Pn(PinName("A", i - 1), INPUT, 0, 10 + (i - 1) * 10)]
    \o [i \in 1..n |-> Pn(PinName("B", i - 1), INPUT, 0, 20 + n * 10 + (i - 1) * 10)]
    \o <<Pn("EQ", OUTPUT, 80, 10), Pn("GT", OUTPUT, 80, 30), Pn("LT", OUTPUT, 80, 50)>>

\* The classes of gates.py, by the name of the gate
GateKinds == {"AND", "OR", "NOT", "XOR", "NAND", "NOR", "XNOR", "Buffer"}

PinDefs(kind, n) ==
    CASE kind \in {"Switch", "Button", "Clock"} -> <<Pn("out", OUTPUT, 30, 15)>>
      [] kind = "InputPin" -> <<Pn("out", OUTPUT, 20, 10)>>
      [] kind = "LED" -> <<Pn("in", INPUT, 0, 15)>>
      [] kind = "OutputPin" -> <<Pn("in", INPUT, 0, 10)>>
      [] kind \in GateKinds -> GatePins(n)
      [] kind = "Decoder" -> DecoderPins(n)
      [] kind = "Comparator" -> ComparatorPins(n)
      [] kind = "DFlipFlop" ->
            <<Pn("D", INPUT, 0, 10), Pn("CLK", INPUT, 0, 30),
              Pn("Q", OUTPUT, 60, 10), Pn("Q'", OUTPUT, 60, 30)>>
      [] kind = "JKFlipFlop" ->
            <<Pn("J", INPUT, 0, 10), Pn("K", INPUT, 0, 20), Pn("CLK", INPUT, 0, 40),
              Pn("Q", OUTPUT, 60, 10), Pn("Q'", OUTPUT, 60, 40)>>
      [] kind = "SRLatch" ->
            <<Pn("S", INPUT, 0, 10), Pn("R", INPUT, 0, 30),
              Pn("Q", OUTPUT, 60, 10), Pn("Q'", OUTPUT, 60, 30)>>
      [] kind = "Register" -> RegisterPins(n)
      [] kind = "Component" /\ n = 1 -> <<Pn("out", OUTPUT, 0, 0)>>
      [] OTHER -> <<>>

-----------------------------------------------------------------------------
(* The heap.  A store S packs the variables the graph operations work on:   *)
(* [comp, pin, wire, circuit].                                              *)

\* Component.__init__ followed by the kind's _setup_pins and attributes.
KindAttrs(kind, n) ==
    CASE kind = "Switch" -> [state |-> FALSE]
      [] kind = "Button" -> [pressed |-> FALSE]
      [] kind \in {"InputPin", "OutputPin"} -> [value |-> FALSE]
      [] kind = "LED" -> [lit |-> FALSE]
      [] kind = "Clock" -> [state |-> FALSE, tick_count |-> 0, frequency |-> 1]
      [] kind \in {"DFlipFlop", "JKFlipFlop"} -> [state |-> FALSE, last_clock |-> FALSE]
      [] kind = "SRLatch" -> [state |-> FALSE]
      [] kind = "Register" -> [bit_width |-> n, value |-> 0, last_clock |-> FALSE]
      [] kind \in GateKinds -> [num_inputs |-> n]
      [] kind = "Decoder" -> [num_inputs |-> n, num_outputs |-> Pow2(n)]
      [] kind = "Comparator" -> [bit_width |-> n]
      [] OTHER -> [none |-> FALSE]

NewComponent(kind, n, component_id) ==
    [kind |-> kind, id |-> component_id,
     pins |-> [i \in 1..Len(PinDefs(kind, n)) |-> PinDefs(kind, n)[i].name],
     attrs |-> KindAttrs(kind, n)]

\* Pin(name, pin_type, position): signal defaults to Signal() (UNKNOWN),
\* bit_width to 1, connected_wires to [].
NewPin(d) ==
    [name |-> d.name, pin_type |-> d.pin_type, position |-> <<d.x, d.y>>,
     signal |-> UNKNOWN, bit_width |-> 1, connected_wires |-> <<>>]

\* Wire(wire_id, start_pin, end_pin): points defaults to [], signal to Signal().
NewWire(wire_id, start_pin, end_pin) ==
    [wire_id |-> wire_id, start_pin |-> start_pin, end_pin |-> end_pin, signal |-> UNKNOWN]

\* Circuit.__init__
NewCircuit ==
    [components |-> <<>>, wires |-> <<>>, next_component_id |-> 0, next_wire_id |-> 0]

\* The Pin objects of a pool of components given as a sequence of
\* [kind, n, id] constructor calls.
PoolPinIds(pool) ==
    UNION {{<<c, PinDefs(pool[c].kind, pool[c].n)[i].name>> :
                i \in 1..Len(PinDefs(pool[c].kind, pool[c].n))} : c \in 1..Len(pool)}

PoolPinDef(pool, p) ==
    LET ds == PinDefs(pool[p[1]].kind, pool[p[1]].n)
    IN ds[CHOOSE i \in 1..Len(ds) : ds[i].name = p[2]]

PoolComp(pool) == [c \in 1..Len(pool) |-> NewComponent(pool[c].kind, pool[c].n, pool[c].id)]
PoolPin(pool) == [p \in PoolPinIds(pool) |-> NewPin(PoolPinDef(pool, p))]

St == [comp |-> comp, pin |-> pin, wire |-> wire, circuit |-> circuit]

SetSt(S) ==
    /\ comp' = S.comp
    /\ pin' = S.pin
    /\ wire' = S.wire
    /\ circuit' = S.circuit

\* component.pins.values()
PinsOfComp(S, c) == [i \in 1..Len(S.comp[c].pins) |-> <<c, S.comp[c].pins[i]>>]

-----------------------------------------------------------------------------
(* Python's == on Pin and Wire.  Both are @dataclass, so == compares the    *)
(* fields in order; containers compare their items with the identity        *)
(* shortcut first.  A Pin lists its Wires and a Wire holds its Pins, so a   *)
(* comparison that comes back to a pair of pins it is already comparing     *)
(* never ends and Python raises RecursionError: "E".                        *)

\* PyEq(S, "pin", p, q, stk): Pin p == Pin q, by PyObject_RichCompareBool
\* (identical objects are equal), else by Pin.__eq__: name, pin_type,
\* position, signal, bit_width, connected_wires in this order.
\* PyEq(S, "list", l1, l2, stk): two connected_wires lists, lengths first,
\* then item by item up to the first difference.
\* PyEq(S, "wire", a, b, stk): Wire a == Wire b, identical or by
\* Wire.__eq__: wire_id, start_pin, end_pin, points (always []), signal.
\* stk holds the pairs of pins whose comparison is in progress.
RECURSIVE PyEq(_, _, _, _, _)
PyEq(S, what, a, b, stk) ==
    CASE what = "pin" ->
           IF a = b THEN "T"
           ELSE IF <<a, b>> \in stk THEN "E"
           ELSE IF \/ S.pin[a].name # S.pin[b].name
                   \/ S.pin[a].pin_type # S.pin[b].pin_type
                   \/ S.pin[a].position # S.pin[b].position
                   \/ S.pin[a].signal # S.pin[b].signal
                   \/ S.pin[a].bit_width # S.pin[b].bit_width
                THEN "F"
           ELSE PyEq(S, "list", S.pin[a].connected_wires, S.pin[b].connected_wires,
                     stk \cup {<<a, b>>})
      [] what = "list" ->
           IF Len(a) # Len(b) THEN "F"
           ELSE IF Len(a) = 0 THEN "T"
           ELSE LET r == PyEq(S, "wire", Head(a), Head(b), stk)
                IN IF r = "T" THEN PyEq(S, "list", Tail(a), Tail(b), stk) ELSE r
      [] what = "wire" ->
           IF a = b THEN "T"
           ELSE IF S.wire[a].wire_id # S.wire[b].wire_id THEN "F"
           ELSE LET r1 == PyEq(S, "pin", S.wire[a].start_pin, S.wire[b].start_pin, stk)
                IN IF r1 # "T" THEN r1
                   ELSE LET r2 == PyEq(S, "pin", S.wire[a].end_pin, S.wire[b].end_pin, stk)
                        IN IF r2 # "T" THEN r2
                           ELSE IF S.wire[a].signal # S.wire[b].signal THEN "F"
                           ELSE "T"

PinRichEq(S, p, q) == PyEq(S, "pin", p, q, {})

WireRichEq(S, a, b) == PyEq(S, "wire", a, b, {})

\* x in pins (a sequence of Pin objects): "T", "F" or "E"
RECURSIVE PinIn(_, _, _, _)
PinIn(S, x, pins, i) ==
    IF i > Len(pins) THEN "F"
    ELSE LET r == PinRichEq(S, pins[i], x)
         IN IF r = "F" THEN PinIn(S, x, pins, i + 1) ELSE r

\* The index of the first item of list l equal to wire w; 0 when there is
\* none (w not in l), -1 when the search raises.
RECURSIVE WireIndex(_, _, _, _)
WireIndex(S, w, l, i) ==
    IF i > Len(l) THEN 0
    ELSE LET r == WireRichEq(S, l[i], w)
         IN IF r = "T" THEN i
            ELSE IF r = "E" THEN -1
            ELSE WireIndex(S, w, l, i + 1)

\* list.remove at a known index
RemoveAt(l, i) == [j \in 1..(Len(l) - 1) |-> IF j < i THEN l[j] ELSE l[j + 1]]

-----------------------------------------------------------------------------
(* Circuit: circuit_model.py.  Each operation maps a store to                *)
(* [S |-> the store it leaves, exc |-> the exception it raises or NoExc].    *)

Ok(S) == [S |-> S, exc |-> NoExc]
Raise(S, e) == [S |-> S, exc |-> e]

AutoComponentId(k) == "comp_" \o ToString(k)
AutoWireId(k) == "wire_" \o ToString(k)

\* Circuit.add_component(component), component being object c
add_component(S, c) ==
    LET blank == S.comp[c].id = ""
        id == IF blank THEN AutoComponentId(S.circuit.next_component_id) ELSE S.comp[c].id
    IN Ok([S EXCEPT !.comp[c].id = id,
                    !.circuit.next_component_id = IF blank THEN @ + 1 ELSE @,
                    !.circuit.components = DictSet(@, id, c)])

\* Circuit.add_wire(wire), wire being object w
add_wire(S, w) ==
    LET blank == S.wire[w].wire_id = ""
        id == IF blank THEN AutoWireId(S.circuit.next_wire_id) ELSE S.wire[w].wire_id
        S1 == [S EXCEPT !.wire[w].wire_id = id,
                        !.circuit.next_wire_id = IF blank THEN @ + 1 ELSE @,
                        !.circuit.wires = DictSet(@, id, w)]
        S2 == [S1 EXCEPT !.pin[S.wire[w].start_pin].connected_wires = Append(@, w)]
    IN Ok([S2 EXCEPT !.pin[S.wire[w].end_pin].connected_wires = Append(@, w)])

\* The body of remove_wire for a wire_id that is in self.wires: detach the
\* wire from both endpoint pins' lists ("wire in list", then list.remove,
\* both comparing with ==), then del self.wires[wire_id].
DetachAndDelete(S, wire_id) ==
    LET w == DictGet(S.circuit.wires, wire_id)
        sp == S.wire[w].start_pin
        ep == S.wire[w].end_pin
        i1 == WireIndex(S, w, S.pin[sp].connected_wires, 1)
        S1 == IF i1 > 0
              THEN [S EXCEPT !.pin[sp].connected_wires = RemoveAt(@, i1)]
              ELSE S
        i2 == WireIndex(S1, w, S1.pin[ep].connected_wires, 1)
        S2 == IF i2 > 0
              THEN [S1 EXCEPT !.pin[ep].connected_wires = RemoveAt(@, i2)]
              ELSE S1
    IN IF i1 < 0 THEN Raise(S, "RecursionError")
       ELSE IF i2 < 0 THEN Raise(S1, "RecursionError")
       ELSE Ok([S2 EXCEPT !.circuit.wires = DictDel(@, wire_id)])

\* remove_wire without its "if wire_id in self.wires" guard: del raises.
remove_wire_unguarded(S, wire_id) ==
    IF ~DictHas(S.circuit.wires, wire_id) THEN Raise(S, "KeyError")
    ELSE DetachAndDelete(S, wire_id)

\* Circuit.remove_wire(wire_id)
remove_wire(S, wire_id) ==
    IF ~DictHas(S.circuit.wires, wire_id) THEN Ok(S)
    ELSE DetachAndDelete(S, wire_id)

\* The first loop of remove_component: the ids of the wires with an endpoint
\* in component c's pins, in dict order, or the exception a membership test
\* raises.
RECURSIVE WiresToRemove(_, _, _, _)
WiresToRemove(S, c, i, acc) ==
    IF i > Len(S.circuit.wires) THEN [ids |-> acc, exc |-> NoExc]
    ELSE LET e == S.circuit.wires[i]
             r1 == PinIn(S, S.wire[e.obj].start_pin, PinsOfComp(S, c), 1)
             r2 == IF r1 = "F"
                   THEN PinIn(S, S.wire[e.obj].end_pin, PinsOfComp(S, c), 1)
                   ELSE r1
         IN IF r2 = "E" THEN [ids |-> acc, exc |-> "RecursionError"]
            ELSE WiresToRemove(S, c, i + 1, IF r2 = "T" THEN Append(acc, e.key) ELSE acc)

\* The second loop of remove_component.
RECURSIVE RemoveWires(_, _, _)
RemoveWires(S, ids, i) ==
    IF i > Len(ids) THEN Ok(S)
    ELSE LET r == remove_wire(S, ids[i])
         IN IF r.exc # NoExc THEN r ELSE RemoveWires(r.S, ids, i + 1)

\* Circuit.remove_component(component_id)
remove_component(S, component_id) ==
    IF ~DictHas(S.circuit.components, component_id) THEN Ok(S)
    ELSE
      LET c == DictGet(S.circuit.components, component_id)
          wires_to_remove == WiresToRemove(S, c, 1, <<>>)
      IN IF wires_to_remove.exc # NoExc THEN Raise(S, wires_to_remove.exc)
         ELSE LET r == RemoveWires(S, wires_to_remove.ids, 1)
              IN IF r.exc # NoExc THEN r
                 ELSE Ok([r.S EXCEPT !.circuit.components = DictDel(@, component_id)])

\* clear() that empties both dicts and leaves the counters
clear_keeping_counters(S) ==
    Ok([S EXCEPT !.circuit.components = <<>>, !.circuit.wires = <<>>])

\* Circuit.clear()
clear(S) ==
    Ok([S EXCEPT !.circuit = NewCircuit])

-----------------------------------------------------------------------------
(* Components: components/io.py, gates.py, memory.py, base.py.              *)
(* evaluate(S, c) is component object c's evaluate() on store S.            *)

IsHigh(S, p) == S.pin[p].signal = HIGH

SetSignal(S, p, signal) == [S EXCEPT !.pin[p].signal = signal]

\* get_input_values that takes every state but LOW for true
get_input_values_not_low(S, c) ==
    [i \in 1..S.comp[c].attrs.num_inputs |->
        IF <<c, InName(i - 1)>> \in DOMAIN S.pin
        THEN S.pin[<<c, InName(i - 1)>>].signal # LOW
        ELSE FALSE]

\* BaseGate.get_input_values: one boolean per in<i>, False for a missing pin
get_input_values(S, c) ==
    [i \in 1..S.comp[c].attrs.num_inputs |->
        IF <<c, InName(i - 1)>> \in DOMAIN S.pin
        THEN IsHigh(S, <<c, InName(i - 1)>>)
        ELSE FALSE]

all(bs) == \A i \in 1..Len(bs) : bs[i]
any(bs) == \E i \in 1..Len(bs) : bs[i]

\* An edge "detected" whenever the clock is HIGH
rising_edge_level(last_clock, clock_signal) == clock_signal

\* BaseFlipFlop.detect_rising_edge (and the same two lines of Register)
rising_edge(last_clock, clock_signal) == ~last_clock /\ clock_signal

\* Q and Q' driven from the stored bit
DriveQ(S, c) ==
    SetSignal(SetSignal(S, <<c, "Q">>, from_bool(S.comp[c].attrs.state)),
              <<c, "Q'">>, from_bool(~S.comp[c].attrs.state))

Switch_evaluate(S, c) == SetSignal(S, <<c, "out">>, from_bool(S.comp[c].attrs.state))

Button_evaluate(S, c) == SetSignal(S, <<c, "out">>, from_bool(S.comp[c].attrs.pressed))

LED_evaluate(S, c) == [S EXCEPT !.comp[c].attrs.lit = IsHigh(S, <<c, "in">>)]

InputPin_evaluate(S, c) == SetSignal(S, <<c, "out">>, from_bool(S.comp[c].attrs.value))

OutputPin_evaluate(S, c) == [S EXCEPT !.comp[c].attrs.value = IsHigh(S, <<c, "in">>)]

\* The counter tested with > : it toggles one call late
Clock_evaluate_late(S, c) ==
    LET a == S.comp[c].attrs
        t == a.tick_count + 1
        toggles == t > a.frequency
        S1 == [S EXCEPT !.comp[c].attrs.state = IF toggles THEN ~a.state ELSE a.state,
                        !.comp[c].attrs.tick_count = IF toggles THEN 0 ELSE t]
    IN SetSignal(S1, <<c, "out">>, from_bool(S1.comp[c].attrs.state))

Clock_evaluate(S, c) ==
    LET a == S.comp[c].attrs
        t == a.tick_count + 1
        toggles == t >= a.frequency
        S1 == [S EXCEPT !.comp[c].attrs.state = IF toggles THEN ~a.state ELSE a.state,
                        !.comp[c].attrs.tick_count = IF toggles THEN 0 ELSE t]
    IN SetSignal(S1, <<c, "out">>, from_bool(S1.comp[c].attrs.state))

ANDGate_evaluate(S, c) ==
    LET inputs == get_input_values(S, c)
    IN SetSignal(S, <<c, "out">>, from_bool(IF Len(inputs) > 0 THEN all(inputs) ELSE FALSE))

ORGate_evaluate(S, c) ==
    LET inputs == get_input_values(S, c)
    IN SetSignal(S, <<c, "out">>, from_bool(IF Len(inputs) > 0 THEN any(inputs) ELSE FALSE))

NOTGate_evaluate(S, c) ==
    LET inputs == get_input_values(S, c)
    IN SetSignal(S, <<c, "out">>, from_bool(IF Len(inputs) > 0 THEN ~inputs[1] ELSE TRUE))

\* sum(inputs): True counts 1
sum(bs) == Cardinality({i \in 1..Len(bs) : bs[i]})

XORGate_evaluate(S, c) ==
    LET inputs == get_input_values(S, c)
    IN SetSignal(S, <<c, "out">>,
                 from_bool(IF Len(inputs) > 0 THEN sum(inputs) % 2 = 1 ELSE FALSE))

NANDGate_evaluate(S, c) ==
    LET inputs == get_input_values(S, c)
    IN SetSignal(S, <<c, "out">>, from_bool(IF Len(inputs) > 0 THEN ~all(inputs) ELSE TRUE))

NORGate_evaluate(S, c) ==
    LET inputs == get_input_values(S, c)
    IN SetSignal(S, <<c, "out">>, from_bool(IF Len(inputs) > 0 THEN ~any(inputs) ELSE TRUE))

XNORGate_evaluate(S, c) ==
    LET inputs == get_input_values(S, c)
    IN SetSignal(S, <<c, "out">>,
                 from_bool(IF Len(inputs) > 0 THEN sum(inputs) % 2 = 0 ELSE TRUE))

BufferGate_evaluate(S, c) ==
    LET inputs == get_input_values(S, c)
    IN SetSignal(S, <<c, "out">>, from_bool(IF Len(inputs) > 0 THEN inputs[1] ELSE FALSE))

\* value |= (1 << i) for each of the pins <prefix>0..<prefix>(i-1) that is
\* HIGH, starting from 0: bit i is clear before it is set, so | adds 2^i
RECURSIVE read_value(_, _, _, _)
read_value(S, c, prefix, i) ==
    IF i = 0 THEN 0
    ELSE read_value(S, c, prefix, i - 1)
         + (IF IsHigh(S, <<c, PinName(prefix, i - 1)>>) THEN Pow2(i - 1) ELSE 0)

\* Only the selected output is driven
DriveOutputs_selected_only(S, c, input_value, i) ==
    SetSignal(S, <<c, PinName("O", input_value)>>, HIGH)

\* O0..O(i-1) driven from input_value
RECURSIVE DriveOutputs(_, _, _, _)
DriveOutputs(S, c, input_value, i) ==
    IF i = 0 THEN S
    ELSE SetSignal(DriveOutputs(S, c, input_value, i - 1), <<c, PinName("O", i - 1)>>,
                   from_bool(i - 1 = input_value))

Decoder_evaluate(S, c) ==
    DriveOutputs(S, c, read_value(S, c, "I", S.comp[c].attrs.num_inputs),
                 S.comp[c].attrs.num_outputs)

\* The values compared as two's complement numbers of bit_width bits
Compared_signed(S, c, a_value, b_value) ==
    LET n == S.comp[c].attrs.bit_width
        signed(v) == IF v >= Pow2(n - 1) THEN v - Pow2(n) ELSE v
    IN SetSignal(SetSignal(SetSignal(S, <<c, "EQ">>, from_bool(a_value = b_value)),
                           <<c, "GT">>, from_bool(signed(a_value) > signed(b_value))),
                 <<c, "LT">>, from_bool(signed(a_value) < signed(b_value)))

Compared(S, c, a_value, b_value) ==
    SetSignal(SetSignal(SetSignal(S, <<c, "EQ">>, from_bool(a_value = b_value)),
                        <<c, "GT">>, from_bool(a_value > b_value)),
              <<c, "LT">>, from_bool(a_value < b_value))

Comparator_evaluate(S, c) ==
    Compared(S, c, read_value(S, c, "A", S.comp[c].attrs.bit_width),
             read_value(S, c, "B", S.comp[c].attrs.bit_width))

\* A D latch: the bit follows D while CLK is HIGH
DFlipFlop_evaluate_level(S, c) ==
    LET clock == IsHigh(S, <<c, "CLK">>)
        S1 == [S EXCEPT !.comp[c].attrs.last_clock = clock,
                        !.comp[c].attrs.state = IF clock THEN IsHigh(S, <<c, "D">>) ELSE @]
    IN DriveQ(S1, c)

DFlipFlop_evaluate(S, c) ==
    LET clock == IsHigh(S, <<c, "CLK">>)
        rising == rising_edge(S.comp[c].attrs.last_clock, clock)
        S1 == [S EXCEPT !.comp[c].attrs.last_clock = clock,
                        !.comp[c].attrs.state = IF rising THEN IsHigh(S, <<c, "D">>) ELSE @]
    IN DriveQ(S1, c)

\* J tested before "J and K": both HIGH sets the bit
JKFlipFlop_evaluate_j_first(S, c) ==
    LET j == IsHigh(S, <<c, "J">>)
        k == IsHigh(S, <<c, "K">>)
        clock == IsHigh(S, <<c, "CLK">>)
        rising == rising_edge(S.comp[c].attrs.last_clock, clock)
        S1 == [S EXCEPT !.comp[c].attrs.last_clock = clock,
                        !.comp[c].attrs.state =
                            IF ~rising THEN @
                            ELSE IF j THEN TRUE
                            ELSE IF k THEN FALSE
                            ELSE @]
    IN DriveQ(S1, c)

JKFlipFlop_evaluate(S, c) ==
    LET j == IsHigh(S, <<c, "J">>)
        k == IsHigh(S, <<c, "K">>)
        clock == IsHigh(S, <<c, "CLK">>)
        rising == rising_edge(S.comp[c].attrs.last_clock, clock)
        S1 == [S EXCEPT !.comp[c].attrs.last_clock = clock,
                        !.comp[c].attrs.state =
                            IF ~rising THEN @
                            ELSE IF j /\ k THEN ~@
                            ELSE IF j THEN TRUE
                            ELSE IF k THEN FALSE
                            ELSE @]
    IN DriveQ(S1, c)

\* R wins when S and R are both HIGH
SRLatch_evaluate_reset_dominant(S, c) ==
    LET s == IsHigh(S, <<c, "S">>)
        r == IsHigh(S, <<c, "R">>)
        S1 == [S EXCEPT !.comp[c].attrs.state =
                            IF r THEN FALSE ELSE IF s THEN TRUE ELSE @]
    IN DriveQ(S1, c)

SRLatch_evaluate(S, c) ==
    LET s == IsHigh(S, <<c, "S">>)
        r == IsHigh(S, <<c, "R">>)
        S1 == [S EXCEPT !.comp[c].attrs.state =
                            IF s /\ ~r THEN TRUE ELSE IF r /\ ~s THEN FALSE ELSE @]
    IN DriveQ(S1, c)

\* The value captured from D0..D(n-1), LSB first
RECURSIVE CaptureBits(_, _, _)
CaptureBits(S, c, i) ==
    IF i = 0 THEN 0
    ELSE CaptureBits(S, c, i - 1)
         + (IF IsHigh(S, <<c, DName(i - 1)>>) THEN Pow2(i - 1) ELSE 0)

\* Q0..Q(n-1) driven from value
RECURSIVE DriveBits(_, _, _)
DriveBits(S, c, i) ==
    IF i = 0 THEN S
    ELSE SetSignal(DriveBits(S, c, i - 1), <<c, QName(i - 1)>>,
                   from_bool((S.comp[c].attrs.value \div Pow2(i - 1)) % 2 = 1))

\* A transparent register: captures whenever CLK is HIGH
Register_evaluate_level(S, c) ==
    LET a == S.comp[c].attrs
        clock == IsHigh(S, <<c, "CLK">>)
        S1 == [S EXCEPT !.comp[c].attrs.last_clock = clock,
                        !.comp[c].attrs.value =
                            IF clock THEN CaptureBits(S, c, a.bit_width) ELSE @]
    IN DriveBits(S1, c, a.bit_width)

Register_evaluate(S, c) ==
    LET a == S.comp[c].attrs
        clock == IsHigh(S, <<c, "CLK">>)
        rising == rising_edge(a.last_clock, clock)
        S1 == [S EXCEPT !.comp[c].attrs.last_clock = clock,
                        !.comp[c].attrs.value =
                            IF rising THEN CaptureBits(S, c, a.bit_width) ELSE @]
    IN DriveBits(S1, c, a.bit_width)

\* component.evaluate(): the kind's evaluate; Component.evaluate itself raises.
evaluate(S, c) ==
    LET kind == S.comp[c].kind
    IN CASE kind = "Switch" -> Ok(Switch_evaluate(S, c))
         [] kind = "Button" -> Ok(Button_evaluate(S, c))
         [] kind = "LED" -> Ok(LED_evaluate(S, c))
         [] kind = "InputPin" -> Ok(InputPin_evaluate(S, c))
         [] kind = "OutputPin" -> Ok(OutputPin_evaluate(S, c))
         [] kind = "Clock" -> Ok(Clock_evaluate(S, c))
         [] kind = "AND" -> Ok(ANDGate_evaluate(S, c))
         [] kind = "OR" -> Ok(ORGate_evaluate(S, c))
         [] kind = "NOT" -> Ok(NOTGate_evaluate(S, c))
         [] kind = "XOR" -> Ok(XORGate_evaluate(S, c))
         [] kind = "NAND" -> Ok(NANDGate_evaluate(S, c))
         [] kind = "NOR" -> Ok(NORGate_evaluate(S, c))
         [] kind = "XNOR" -> Ok(XNORGate_evaluate(S, c))
         [] kind = "Buffer" -> Ok(BufferGate_evaluate(S, c))
         [] kind = "Decoder" -> Ok(Decoder_evaluate(S, c))
         [] kind = "Comparator" -> Ok(Comparator_evaluate(S, c))
         [] kind = "DFlipFlop" -> Ok(DFlipFlop_evaluate(S, c))
         [] kind = "JKFlipFlop" -> Ok(JKFlipFlop_evaluate(S, c))
         [] kind = "SRLatch" -> Ok(SRLatch_evaluate(S, c))
         [] kind = "Register" -> Ok(Register_evaluate(S, c))
         [] OTHER -> Raise(S, "NotImplementedError")

\* set_state that stores the state and leaves the out pin to the next step()
set_state_unevaluated(S, c, state) == [S EXCEPT !.comp[c].attrs.state = state]

\* Switch.set_state(state)
set_state(S, c, state) == Switch_evaluate([S EXCEPT !.comp[c].attrs.state = state], c)

\* Switch.toggle()
toggle(S, c) == Switch_evaluate([S EXCEPT !.comp[c].attrs.state = ~@], c)

\* Button.press() and Button.release()
press(S, c) == Button_evaluate([S EXCEPT !.comp[c].attrs.pressed = TRUE], c)
release(S, c) == Button_evaluate([S EXCEPT !.comp[c].attrs.pressed = FALSE], c)

\* InputPin.set_value(value)
set_value(S, c, value) == InputPin_evaluate([S EXCEPT !.comp[c].attrs.value = value], c)

-----------------------------------------------------------------------------
(* simulation_engine.py. The engine fields are the record E; the operators  *)
(* return the store (and the engine) after the call.                        *)

\* Wire.propagate() of wire object w, start endpoint first
Wire_propagate_end_first(S, w) ==
    LET start_pin == S.wire[w].start_pin
        end_pin == S.wire[w].end_pin
    IN IF S.pin[end_pin].pin_type = OUTPUT
       THEN [S EXCEPT !.wire[w].signal = S.pin[end_pin].signal,
                      !.pin[start_pin].signal = S.pin[end_pin].signal]
       ELSE IF S.pin[start_pin].pin_type = OUTPUT
       THEN [S EXCEPT !.wire[w].signal = S.pin[start_pin].signal,
                      !.pin[end_pin].signal = S.pin[start_pin].signal]
       ELSE S

Wire_propagate(S, w) ==
    LET start_pin == S.wire[w].start_pin
        end_pin == S.wire[w].end_pin
    IN IF S.pin[start_pin].pin_type = OUTPUT
       THEN [S EXCEPT !.wire[w].signal = S.pin[start_pin].signal,
                      !.pin[end_pin].signal = S.pin[start_pin].signal]
       ELSE IF S.pin[end_pin].pin_type = OUTPUT
       THEN [S EXCEPT !.wire[w].signal = S.pin[end_pin].signal,
                      !.pin[start_pin].signal = S.pin[end_pin].signal]
       ELSE S

\* _propagate_signals: every wire of circuit.wires from position i on, in order
RECURSIVE propagate_signals(_, _)
propagate_signals(S, i) ==
    IF i > Len(S.circuit.wires) THEN S
    ELSE propagate_signals(Wire_propagate(S, S.circuit.wires[i].obj), i + 1)

\* The names of component c's OUTPUT pins (get_output_pins)
get_output_pins(S, c) ==
    {name \in {S.comp[c].pins[i] : i \in 1..Len(S.comp[c].pins)} :
        S.pin[<<c, name>>].pin_type = OUTPUT}

\* Some OUTPUT pin of component c has another signal in T than in S
OutputsDiffer(S, T, c) ==
    \E name \in get_output_pins(S, c) : S.pin[<<c, name>>].signal # T.pin[<<c, name>>].signal

\* The wires propagated after every component's evaluate()
tried_propagating(acc, c, r) ==
    [S |-> propagate_signals(r.S, 1),
     changed |-> acc.changed \/ (r.exc = NoExc /\ OutputsDiffer(acc.S, r.S, c)),
     exc |-> NoExc]

\* The try block without its except: the exception leaves the loop
tried_uncaught(acc, c, r) ==
    [S |-> r.S,
     changed |-> acc.changed \/ (r.exc = NoExc /\ OutputsDiffer(acc.S, r.S, c)),
     exc |-> r.exc]

\* The body of the for loop of _evaluate_circuit for component c, r being
\* what c.evaluate() did on acc.S: changed is set when an output pin
\* differs from its old value; an exception is caught and printed.
tried(acc, c, r) ==
    [S |-> r.S,
     changed |-> acc.changed \/ (r.exc = NoExc /\ OutputsDiffer(acc.S, r.S, c)),
     exc |-> NoExc]

\* A pass that ends at the first component whose outputs changed
RECURSIVE evaluate_pass_until_changed(_, _)
evaluate_pass_until_changed(acc, i) ==
    IF i > Len(acc.S.circuit.components) \/ acc.exc # NoExc \/ acc.changed THEN acc
    ELSE evaluate_pass_until_changed(
             tried(acc, acc.S.circuit.components[i].obj,
                   evaluate(acc.S, acc.S.circuit.components[i].obj)),
             i + 1)

\* One pass of _evaluate_circuit, the for loop from position i on; acc is
\* [S, changed, exc] so far.
RECURSIVE evaluate_pass(_, _)
evaluate_pass(acc, i) ==
    IF i > Len(acc.S.circuit.components) \/ acc.exc # NoExc THEN acc
    ELSE evaluate_pass(tried(acc, acc.S.circuit.components[i].obj,
                             evaluate(acc.S, acc.S.circuit.components[i].obj)),
                       i + 1)

\* The pass starts with changed = False
NewPass(S) == [S |-> S, changed |-> FALSE, exc |-> NoExc]

\* The while loop with "iteration <= max_iterations"
RECURSIVE evaluate_circuit_one_more(_, _)
evaluate_circuit_one_more(last, iteration) ==
    IF last.exc # NoExc \/ (iteration > 0 /\ ~last.changed)
       \/ ~(iteration <= SIM_MAX_PROPAGATION_DEPTH)
    THEN [S |-> last.S, iteration |-> iteration, changed |-> last.changed,
          exc |-> last.exc]
    ELSE evaluate_circuit_one_more(evaluate_pass(NewPass(last.S), 1), iteration + 1)

\* The while loop of _evaluate_circuit after `iteration` passes, last being
\* the last pass made (the store itself before the first): the loop is left
\* when the last pass changed nothing or the bound is reached, and goes on
\* with another pass otherwise. [S, iteration, changed, exc] when the loop
\* is left, changed being whether the last pass changed an output pin.
RECURSIVE evaluate_circuit(_, _)
evaluate_circuit(last, iteration) ==
    IF last.exc # NoExc \/ (iteration > 0 /\ ~last.changed)
       \/ ~(iteration < SIM_MAX_PROPAGATION_DEPTH)
    THEN [S |-> last.S, iteration |-> iteration, changed |-> last.changed,
          exc |-> last.exc]
    ELSE evaluate_circuit(evaluate_pass(NewPass(last.S), 1), iteration + 1)

\* What step() returns, r being what _evaluate_circuit did, and P the store
\* its caller goes on with
Stepped(r, P, E) ==
    [S |-> P,
     E |-> [E EXCEPT !.tick_count = @ + 1, !.evaluated_components = {}],
     passes |-> r.iteration,
     changed |-> r.changed,
     warned |-> r.exc = NoExc /\ r.iteration >= SIM_MAX_PROPAGATION_DEPTH,
     exc |-> r.exc]

\* The propagation after the evaluation, unless an exception left it
PropagatedAfter(r) == IF r.exc = NoExc THEN propagate_signals(r.S, 1) ELSE r.S

\* step() without the propagation that follows the evaluation
final_propagate_skipped(r, E) == Stepped(r, r.S, E)

\* The second half of step(): the propagation after the evaluation r
final_propagate(r, E) == Stepped(r, PropagatedAfter(r), E)

\* SimulationEngine.step(): [S, E] after the call, with the passes made,
\* whether the non-convergence warning was printed, and the exception that
\* left the call, if any
step(S, E) ==
    final_propagate(evaluate_circuit(NewPass(propagate_signals(S, 1)), 0), E)

\* The Pin objects of the components in circuit.components
CircuitPins(S) ==
    {p \in DOMAIN S.pin : p[1] \in DictObjs(S.circuit.components)}

\* reset() that also returns the components to their constructed state
reset_components_too(S, E) ==
    [S |-> [S EXCEPT !.pin = [p \in DOMAIN S.pin |->
                                 IF p \in CircuitPins(S)
                                 THEN [S.pin[p] EXCEPT !.signal = UNKNOWN]
                                 ELSE S.pin[p]],
                     !.wire = [w \in DOMAIN S.wire |->
                                 IF w \in DictObjs(S.circuit.wires)
                                 THEN [S.wire[w] EXCEPT !.signal = UNKNOWN]
                                 ELSE S.wire[w]],
                     !.comp = [c \in DOMAIN S.comp |->
                                 IF c \in DictObjs(S.circuit.components)
                                 THEN [S.comp[c] EXCEPT !.attrs =
                                          [f \in DOMAIN @ |->
                                              IF f \in {"state", "last_clock", "lit", "pressed"}
                                              THEN FALSE ELSE @[f]]]
                                 ELSE S.comp[c]]],
     E |-> [E EXCEPT !.tick_count = 0, !.propagation_queue = <<>>,
                     !.evaluated_components = {}]]

\* reset() that also empties the Circuit, as Circuit.clear() does
reset_clearing(S, E) ==
    [S |-> clear([S EXCEPT !.pin = [p \in DOMAIN S.pin |->
                                       IF p \in CircuitPins(S)
                                       THEN [S.pin[p] EXCEPT !.signal = UNKNOWN]
                                       ELSE S.pin[p]],
                           !.wire = [w \in DOMAIN S.wire |->
                                       IF w \in DictObjs(S.circuit.wires)
                                       THEN [S.wire[w] EXCEPT !.signal = UNKNOWN]
                                       ELSE S.wire[w]]]).S,
     E |-> [E EXCEPT !.tick_count = 0, !.propagation_queue = <<>>,
                     !.evaluated_components = {}]]

\* SimulationEngine.reset()
reset(S, E) ==
    [S |-> [S EXCEPT !.pin = [p \in DOMAIN S.pin |->
                                 IF p \in CircuitPins(S)
                                 THEN [S.pin[p] EXCEPT !.signal = UNKNOWN]
                                 ELSE S.pin[p]],
                     !.wire = [w \in DOMAIN S.wire |->
                                 IF w \in DictObjs(S.circuit.wires)
                                 THEN [S.wire[w] EXCEPT !.signal = UNKNOWN]
                                 ELSE S.wire[w]]],
     E |-> [E EXCEPT !.tick_count = 0, !.propagation_queue = <<>>,
                     !.evaluated_components = {}]]

\* SimulationEngine.start()
start(S, E) == reset(S, [E EXCEPT !.running = TRUE])

\* component.get_pin(pin_name) is a Pin
HasPin(S, c, pin_name) == <<c, pin_name>> \in DOMAIN S.pin

\* The guard of set_input and toggle_input: the component is in the
\* Circuit, it has the pin, and the pin is INPUT
IsInputOf(S, component_id, pin_name) ==
    /\ DictHas(S.circuit.components, component_id)
    /\ HasPin(S, DictGet(S.circuit.components, component_id), pin_name)
    /\ S.pin[<<DictGet(S.circuit.components, component_id), pin_name>>].pin_type = INPUT

\* set_input that tests only that the pin exists
set_input_any_pin(S, component_id, pin_name, value) ==
    IF /\ DictHas(S.circuit.components, component_id)
       /\ HasPin(S, DictGet(S.circuit.components, component_id), pin_name)
    THEN SetSignal(S, <<DictGet(S.circuit.components, component_id), pin_name>>,
                   from_bool(value))
    ELSE S

\* SimulationEngine.set_input(component_id, pin_name, value)
set_input(S, component_id, pin_name, value) ==
    IF IsInputOf(S, component_id, pin_name)
    THEN SetSignal(S, <<DictGet(S.circuit.components, component_id), pin_name>>,
                   from_bool(value))
    ELSE S

\* SimulationEngine.toggle_input(component_id, pin_name)
toggle_input(S, component_id, pin_name) ==
    IF IsInputOf(S, component_id, pin_name)
    THEN SetSignal(S, <<DictGet(S.circuit.components, component_id), pin_name>>,
                   from_bool(~IsHigh(S, <<DictGet(S.circuit.components, component_id),
                                          pin_name>>)))
    ELSE S

\* SimulationEngine.get_output(component_id, pin_name): the signal returned
get_output(S, component_id, pin_name) ==
    IF /\ DictHas(S.circuit.components, component_id)
       /\ HasPin(S, DictGet(S.circuit.components, component_id), pin_name)
    THEN S.pin[<<DictGet(S.circuit.components, component_id), pin_name>>].signal
    ELSE UNKNOWN

-----------------------------------------------------------------------------
(* The graph specification: a caller works on one Circuit with three        *)
(* component objects, two Switches and an LED.  Components and wires are     *)
(* constructed with a blank id, as the synthesizer and the canvas do, or     *)
(* with the id a saved file gives (file_handler.py passes the saved ids to   *)
(* the constructors): here the first Switch and the first Wire may have a   *)
(* saved id, every later object is constructed blank.  As every caller in    *)
(* the repository does, the caller constructs a Wire from an OUTPUT pin to   *)
(* an INPUT pin of components it has added.                                  *)

GraphKinds == <<"Switch", "Switch", "LED">>
ComponentIdsGiven == {"", "comp_0"}
WireIdsGiven == {"", "wire_0"}
ComponentIdsAsked == {"comp_0", "comp_1", "comp_2"}
WireIdsAsked == {"wire_0", "wire_1", "wire_2"}

Call(op, id, obj, present, exc) ==
    [op |-> op, id |-> id, obj |-> obj, present |-> present, exc |-> exc,
     passes |-> 0, changed |-> FALSE, warned |-> FALSE, blank |-> FALSE,
     pin_name |-> "", value |-> FALSE, result |-> ""]

\* SimulationEngine.__init__
NewEngine ==
    [tick_count |-> 0, running |-> FALSE,
     propagation_queue |-> <<>>, evaluated_components |-> {}]

\* hist.since[c], for a Switch c: the step() calls made since the caller
\* last set c (set_state or toggle), counted up to MaxStepsCounted; -1 when
\* c was not set since the signals were last reset.
\* hist.edges: the last rising edges (two at most) that the flip-flop of
\* the circuit has seen, each [toggle, before, after]: whether J and K were
\* both HIGH at it, and the stored bit before and after it.
NoHistory == [since |-> <<>>, edges |-> <<>>]

InitGraph ==
    /\ \E id1 \in ComponentIdsGiven :
         LET pool == [c \in 1..Len(GraphKinds) |->
                        [kind |-> GraphKinds[c], n |-> 0,
                         id |-> IF c = 1 THEN id1 ELSE ""]]
         IN /\ comp = PoolComp(pool)
            /\ pin = PoolPin(pool)
    /\ wire = [w \in 1..MaxWireObjs |-> NoWire]
    /\ circuit = NewCircuit
    /\ sim = NewEngine
    /\ call = Call("init", "", 0, FALSE, NoExc)
    /\ hist = NoHistory

ComponentPresent(S, c) == c \in DictObjs(S.circuit.components)

AddComponent(c) ==
    LET r == add_component(St, c)
    IN /\ SetSt(r.S)
       /\ call' = [Call("add_component", r.S.comp[c].id, c,
                        DictHas(circuit.components, r.S.comp[c].id), r.exc)
                      EXCEPT !.blank = comp[c].id = ""]
       /\ UNCHANGED <<sim, hist>>

\* wire = Wire(wire_id, start_pin, end_pin); circuit.add_wire(wire)
AddWire(w, wire_id, start_pin, end_pin) ==
    /\ wire[w] = NoWire
    /\ \A v \in 1..(w - 1) : wire[v] # NoWire
    /\ wire_id # "" => w = 1
    /\ pin[start_pin].pin_type = OUTPUT
    /\ pin[end_pin].pin_type = INPUT
    /\ ComponentPresent(St, start_pin[1])
    /\ ComponentPresent(St, end_pin[1])
    /\ LET S0 == [St EXCEPT !.wire[w] = NewWire(wire_id, start_pin, end_pin)]
           r == add_wire(S0, w)
       IN /\ SetSt(r.S)
          /\ call' = [Call("add_wire", r.S.wire[w].wire_id, w,
                           DictHas(circuit.wires, r.S.wire[w].wire_id), r.exc)
                         EXCEPT !.blank = wire_id = ""]
    /\ UNCHANGED <<sim, hist>>

RemoveComponent(component_id) ==
    LET r == remove_component(St, component_id)
    IN /\ SetSt(r.S)
       /\ call' = Call("remove_component", component_id,
                       IF DictHas(circuit.components, component_id)
                       THEN DictGet(circuit.components, component_id) ELSE 0,
                       DictHas(circuit.components, component_id), r.exc)
       /\ UNCHANGED <<sim, hist>>

RemoveWire(wire_id) ==
    LET r == remove_wire(St, wire_id)
    IN /\ SetSt(r.S)
       /\ call' = Call("remove_wire", wire_id,
                       IF DictHas(circuit.wires, wire_id)
                       THEN DictGet(circuit.wires, wire_id) ELSE 0,
                       DictHas(circuit.wires, wire_id), r.exc)
       /\ UNCHANGED <<sim, hist>>

Clear ==
    LET r == clear(St)
    IN /\ SetSt(r.S)
       /\ call' = Call("clear", "", 0, FALSE, r.exc)
       /\ UNCHANGED <<sim, hist>>

NextGraph ==
    \/ \E c \in DOMAIN comp : AddComponent(c)
    \/ \E w \in DOMAIN wire, wire_id \in WireIdsGiven, sp \in DOMAIN pin, ep \in DOMAIN pin :
         AddWire(w, wire_id, sp, ep)
    \/ \E component_id \in ComponentIdsAsked : RemoveComponent(component_id)
    \/ \E wire_id \in WireIdsAsked : RemoveWire(wire_id)
    \/ Clear

SpecGraph == InitGraph /\ [][NextGraph]_vars

-----------------------------------------------------------------------------
(* Claims about the circuit graph *)

\* The owner of a Pin object
Owner(p) == p[1]

\* C8: after any sequence of add_component, add_wire, remove_component,
\* remove_wire and clear calls, both endpoint pins of every wire the Circuit
\* holds belong to a component that is present in the Circuit.
C8_WireEndpointsPresent ==
    \A i \in 1..Len(circuit.wires) :
        /\ ComponentPresent(St, Owner(wire[circuit.wires[i].obj].start_pin))
        /\ ComponentPresent(St, Owner(wire[circuit.wires[i].obj].end_pin))

\* Wire object w has an endpoint among the pins of component object c.
Touches(S, w, c) == Owner(S.wire[w].start_pin) = c \/ Owner(S.wire[w].end_pin) = c

InList(l, x) == \E i \in 1..Len(l) : l[i] = x

\* What C9 says of a remove_component(component_id) that takes store S to T.
RemovedWithIncidentWires(S, T, component_id) ==
    LET c == DictGet(S.circuit.components, component_id)
    IN /\ T.circuit.components = DictDel(S.circuit.components, component_id)
       /\ T.circuit.wires =
            SelectSeq(S.circuit.wires, LAMBDA e : ~Touches(S, e.obj, c))
       /\ \A i \in 1..Len(S.circuit.wires) :
            LET w == S.circuit.wires[i].obj
            IN IF Touches(S, w, c)
               THEN \A p \in DOMAIN T.pin : ~InList(T.pin[p].connected_wires, w)
               ELSE /\ T.wire[w] = S.wire[w]
                    /\ InList(T.pin[S.wire[w].start_pin].connected_wires, w)
                    /\ InList(T.pin[S.wire[w].end_pin].connected_wires, w)
       /\ T.comp = S.comp

\* C9: remove_component(id) of a present component removes the component and
\* exactly the wires with an endpoint among its pins, each detached from the
\* pins' wire lists; every other component and wire stays unchanged.
C9_RemoveComponentCascades ==
    [][(call'.op = "remove_component" /\ call'.present)
          => (call'.exc = NoExc /\ RemovedWithIncidentWires(St, St', call'.id))]_vars

\* C10: remove_component and remove_wire called with an id that is not
\* present raise nothing and leave the Circuit, its components, wires, pin
\* wire lists and id counters unchanged; a removal that returns leaves its
\* id absent, so that a second removal of the same id is such a call.
C10_RemoveAbsentIsNoOp ==
    [][/\ (call'.op \in {"remove_component", "remove_wire"} /\ ~call'.present)
            => (call'.exc = NoExc /\ St' = St)
       /\ (call'.op = "remove_component" /\ call'.exc = NoExc)
            => ~DictHas(circuit'.components, call'.id)
       /\ (call'.op = "remove_wire" /\ call'.exc = NoExc)
            => ~DictHas(circuit'.wires, call'.id)]_vars

\* An absent wire id was removed from a circuit that holds wires.
C10_Witness ==
    /\ call.op = "remove_wire"
    /\ ~call.present
    /\ call.exc = NoExc
    /\ Len(circuit.wires) > 0
    /\ Len(circuit.components) > 1

\* C11: an add_component of a component with a blank id, and an add_wire of
\* a wire with a blank id, assigns an id that nothing in the Circuit has: it
\* adds one entry and replaces none.
C11_BlankIdIsFresh ==
    [][(call'.op \in {"add_component", "add_wire"} /\ call'.blank) =>
          /\ ~call'.present
          /\ call'.op = "add_component" =>
                Len(circuit'.components) = Len(circuit.components) + 1
          /\ call'.op = "add_wire" =>
                Len(circuit'.wires) = Len(circuit.wires) + 1]_vars

-----------------------------------------------------------------------------
(* Simulation: a circuit is built as test_basic.py builds one (components    *)
(* constructed with ids, added, wires constructed and added), and then the   *)
(* caller sets sources and calls step(), reset() and start() in any order.   *)

\* step() calls made while tick_count is below MaxTicks (reset() sets it to 0).
MaxTicks == 6

RECURSIVE AddComponents(_, _)
AddComponents(S, c) ==
    IF c > Len(S.comp) THEN S ELSE AddComponents(add_component(S, c).S, c + 1)

RECURSIVE AddWires(_, _)
AddWires(S, w) ==
    IF w > Len(S.wire) THEN S ELSE AddWires(add_wire(S, w).S, w + 1)

\* The component object constructed with the given id in a pool
Made(pool, id) == CHOOSE c \in 1..Len(pool) : pool[c].id = id

\* The store after building: pool is the constructor calls [kind, n, id],
\* wires the Wire constructor calls [id, from, to] with from and to given as
\* <<component id, pin name>>.
Built(pool, wires) ==
    AddWires(
        AddComponents(
            [comp |-> PoolComp(pool),
             pin |-> PoolPin(pool),
             wire |-> [w \in 1..Len(wires) |->
                          NewWire(wires[w].id,
                                  <<Made(pool, wires[w].from[1]), wires[w].from[2]>>,
                                  <<Made(pool, wires[w].to[1]), wires[w].to[2]>>)],
             circuit |-> NewCircuit], 1), 1)

K(kind, n, id) == [kind |-> kind, n |-> n, id |-> id]
W(id, from, to) == [id |-> id, from |-> from, to |-> to]

Switches(S) == {c \in DOMAIN S.comp : S.comp[c].kind = "Switch"}

InitBuilt(pool, wires) ==
    /\ LET S == Built(pool, wires)
       IN /\ comp = S.comp
          /\ pin = S.pin
          /\ wire = S.wire
          /\ circuit = S.circuit
          /\ hist = [since |-> [c \in Switches(S) |-> -1], edges |-> <<>>]
    /\ sim = NewEngine
    /\ call = Call("init", "", 0, FALSE, NoExc)

\* circuit.get_component(component_id) of a component that is present
get_component(component_id) == DictGet(circuit.components, component_id)

\* The JK flip-flops
Clocked(S) == {c \in DOMAIN S.comp : S.comp[c].kind = "JKFlipFlop"}

\* The rising edges the JK flip-flops see in a step() from the current state
\* to store T, P being the pins as the evaluations see them
EdgesSeen(P, T) ==
    {[toggle |-> IsHigh(P, <<c, "J">>) /\ IsHigh(P, <<c, "K">>),
      before |-> comp[c].attrs.state,
      after |-> T.comp[c].attrs.state] :
         c \in {d \in Clocked(St) : ~comp[d].attrs.last_clock /\ T.comp[d].attrs.last_clock}}

LastTwo(l) == IF Len(l) > 2 THEN SubSeq(l, Len(l) - 1, Len(l)) ELSE l

WithEdges(edges, seen) ==
    IF seen = {} THEN edges ELSE LastTwo(Append(edges, CHOOSE e \in seen : TRUE))

\* step() has returned r
Returned(r) ==
    /\ SetSt(r.S)
    /\ sim' = r.E
    /\ call' = [Call("step", "", 0, FALSE, r.exc) EXCEPT
                  !.passes = r.passes, !.changed = r.changed, !.warned = r.warned]
    /\ hist' = [since |-> [c \in DOMAIN hist.since |->
                              IF hist.since[c] < 0 \/ hist.since[c] >= MaxStepsCounted
                              THEN hist.since[c] ELSE hist.since[c] + 1],
                edges |-> WithEdges(hist.edges, EdgesSeen(propagate_signals(St, 1), r.S))]

Step ==
    /\ sim.tick_count < MaxTicks
    /\ Returned(step(St, sim))

Reset ==
    LET r == reset(St, sim)
    IN /\ SetSt(r.S)
       /\ sim' = r.E
       /\ call' = Call("reset", "", 0, FALSE, NoExc)
       /\ hist' = [hist EXCEPT !.since = [c \in DOMAIN hist.since |-> -1]]

Start ==
    LET r == start(St, sim)
    IN /\ SetSt(r.S)
       /\ sim' = r.E
       /\ call' = Call("start", "", 0, FALSE, NoExc)
       /\ hist' = [hist EXCEPT !.since = [c \in DOMAIN hist.since |-> -1]]

SetState(c, state) ==
    /\ comp[c].kind = "Switch"
    /\ SetSt(set_state(St, c, state))
    /\ call' = Call("set_state", comp[c].id, c, TRUE, NoExc)
    /\ hist' = [hist EXCEPT !.since[c] = 0]
    /\ UNCHANGED sim

Toggle(c) ==
    /\ comp[c].kind = "Switch"
    /\ SetSt(toggle(St, c))
    /\ call' = Call("toggle", comp[c].id, c, TRUE, NoExc)
    /\ hist' = [hist EXCEPT !.since[c] = 0]
    /\ UNCHANGED sim

Press(c) ==
    /\ comp[c].kind = "Button"
    /\ SetSt(press(St, c))
    /\ call' = Call("press", comp[c].id, c, TRUE, NoExc)
    /\ UNCHANGED <<sim, hist>>

Release(c) ==
    /\ comp[c].kind = "Button"
    /\ SetSt(release(St, c))
    /\ call' = Call("release", comp[c].id, c, TRUE, NoExc)
    /\ UNCHANGED <<sim, hist>>

SetValue(c, value) ==
    /\ comp[c].kind = "InputPin"
    /\ SetSt(set_value(St, c, value))
    /\ call' = Call("set_value", comp[c].id, c, TRUE, NoExc)
    /\ UNCHANGED <<sim, hist>>

\* wire.propagate() called on one wire of the circuit
Propagate(w) ==
    /\ w \in DictObjs(circuit.wires)
    /\ SetSt(Wire_propagate(St, w))
    /\ call' = Call("propagate", wire[w].wire_id, w, TRUE, NoExc)
    /\ UNCHANGED <<sim, hist>>

\* test_basic.py, test_and_gate
AndPool ==
    <<K("Switch", 0, "s1"), K("Switch", 0, "s2"), K("AND", 2, "and1"), K("LED", 0, "led1")>>

AndWires ==
    <<W("w1", <<"s1", "out">>, <<"and1", "in0">>),
      W("w2", <<"s2", "out">>, <<"and1", "in1">>),
      W("w3", <<"and1", "out">>, <<"led1", "in">>)>>

InitAnd == InitBuilt(AndPool, AndWires)

NextAnd ==
    \/ \E c \in DOMAIN comp, state \in BOOLEAN : SetState(c, state)
    \/ \E c \in DOMAIN comp : Toggle(c)
    \/ Step
    \/ Reset
    \/ Start

SpecAnd == InitAnd /\ [][NextAnd]_vars

\* The AND circuit, with a caller that also writes and reads pins through
\* the engine, by ids and pin names that exist or not
IdsAsked == {"s1", "and1", "gone"}
PinNamesAsked == {"in0", "out", "none"}

SetInput(component_id, pin_name, value) ==
    /\ SetSt(set_input(St, component_id, pin_name, value))
    /\ call' = [Call("set_input", component_id, 0,
                     DictHas(circuit.components, component_id), NoExc)
                  EXCEPT !.pin_name = pin_name, !.value = value]
    /\ UNCHANGED <<sim, hist>>

ToggleInput(component_id, pin_name) ==
    /\ SetSt(toggle_input(St, component_id, pin_name))
    /\ call' = [Call("toggle_input", component_id, 0,
                     DictHas(circuit.components, component_id), NoExc)
                  EXCEPT !.pin_name = pin_name]
    /\ UNCHANGED <<sim, hist>>

GetOutput(component_id, pin_name) ==
    /\ call' = [Call("get_output", component_id, 0,
                     DictHas(circuit.components, component_id), NoExc)
                  EXCEPT !.pin_name = pin_name,
                         !.result = get_output(St, component_id, pin_name)]
    /\ UNCHANGED <<comp, pin, wire, circuit, sim, hist>>

NextInput ==
    \/ \E c \in DOMAIN comp : Toggle(c)
    \/ \E id \in IdsAsked, name \in PinNamesAsked, value \in BOOLEAN :
         SetInput(id, name, value)
    \/ \E id \in IdsAsked, name \in PinNamesAsked : ToggleInput(id, name)
    \/ \E id \in IdsAsked, name \in PinNamesAsked : GetOutput(id, name)
    \/ Step

SpecInput == InitAnd /\ [][NextInput]_vars

\* A free-running Clock and a Switch into a D flip-flop into an LED, and an
\* inverter fed back into itself
ClockedPool ==
    <<K("Clock", 0, "clk"), K("Switch", 0, "d"), K("DFlipFlop", 0, "ff"),
      K("LED", 0, "q"), K("NOT", 1, "inv")>>

ClockedWires ==
    <<W("c1", <<"clk", "out">>, <<"ff", "CLK">>),
      W("c2", <<"d", "out">>, <<"ff", "D">>),
      W("c3", <<"ff", "Q">>, <<"q", "in">>),
      W("c4", <<"inv", "out">>, <<"inv", "in0">>)>>

\* Wires of every orientation: output to input, output to output, input to
\* input, input to output; and a bare Component, whose evaluate() raises
JoinedPool ==
    <<K("Switch", 0, "a"), K("Switch", 0, "b"), K("LED", 0, "x"), K("LED", 0, "y"),
      K("LED", 0, "z"), K("Component", 0, "raw")>>

JoinedWires ==
    <<W("j1", <<"b", "out">>, <<"x", "in">>),
      W("j2", <<"a", "out">>, <<"b", "out">>),
      W("j3", <<"x", "in">>, <<"y", "in">>),
      W("j4", <<"z", "in">>, <<"a", "out">>)>>

\* The components that keep state of their own
StatefulPool ==
    <<K("Button", 0, "p"), K("InputPin", 0, "i"), K("Switch", 0, "c"),
      K("SRLatch", 0, "sr"), K("Register", 1, "reg"), K("OutputPin", 0, "o")>>

StatefulWires ==
    <<W("s1", <<"p", "out">>, <<"sr", "S">>),
      W("s2", <<"i", "out">>, <<"sr", "R">>),
      W("s3", <<"p", "out">>, <<"reg", "D0">>),
      W("s4", <<"c", "out">>, <<"reg", "CLK">>),
      W("s5", <<"sr", "Q">>, <<"o", "in">>)>>

InitSim ==
    \/ InitBuilt(ClockedPool, ClockedWires)
    \/ InitBuilt(JoinedPool, JoinedWires)
    \/ InitBuilt(StatefulPool, StatefulWires)

NextSim ==
    \/ \E c \in DOMAIN comp, state \in BOOLEAN : SetState(c, state)
    \/ \E c \in DOMAIN comp : Toggle(c)
    \/ \E c \in DOMAIN comp : Press(c)
    \/ \E c \in DOMAIN comp : Release(c)
    \/ \E c \in DOMAIN comp, value \in BOOLEAN : SetValue(c, value)
    \/ Step
    \/ Reset
    \/ Start

SpecSim == InitSim /\ [][NextSim]_vars

\* The circuit with wires of every orientation, where the caller also
\* propagates single wires
InitWire == InitBuilt(JoinedPool, JoinedWires)

NextWire ==
    \/ \E c \in DOMAIN comp, state \in BOOLEAN : SetState(c, state)
    \/ \E w \in DOMAIN wire : Propagate(w)
    \/ Step
    \/ Reset

SpecWire == InitWire /\ [][NextWire]_vars

\* A D flip-flop with Switches on D and CLK
DFFPool ==
    <<K("Switch", 0, "d"), K("Switch", 0, "clk"), K("DFlipFlop", 0, "ff"), K("LED", 0, "q")>>

DFFWires ==
    <<W("w1", <<"d", "out">>, <<"ff", "D">>),
      W("w2", <<"clk", "out">>, <<"ff", "CLK">>),
      W("w3", <<"ff", "Q">>, <<"q", "in">>)>>

InitDFF == InitBuilt(DFFPool, DFFWires)

\* Switch changes and step() calls
NextDFF ==
    \/ \E c \in DOMAIN comp, state \in BOOLEAN : SetState(c, state)
    \/ \E c \in DOMAIN comp : Toggle(c)
    \/ Step

SpecDFF == InitDFF /\ [][NextDFF]_vars

\* A JK flip-flop with Switches on J, K and CLK
JKPool ==
    <<K("Switch", 0, "j"), K("Switch", 0, "k"), K("Switch", 0, "clk"),
      K("JKFlipFlop", 0, "ff")>>

JKWires ==
    <<W("w1", <<"j", "out">>, <<"ff", "J">>),
      W("w2", <<"k", "out">>, <<"ff", "K">>),
      W("w3", <<"clk", "out">>, <<"ff", "CLK">>)>>

InitJK == InitBuilt(JKPool, JKWires)

NextJK ==
    \/ \E c \in DOMAIN comp, state \in BOOLEAN : SetState(c, state)
    \/ \E c \in DOMAIN comp : Toggle(c)
    \/ Step

SpecJK == InitJK /\ [][NextJK]_vars

-----------------------------------------------------------------------------
(* Claims about the AND circuit *)

\* Both switches were set since the signals were last reset, and at least
\* two step() calls followed the later of the two
SetThenSteppedTwice ==
    /\ call.op = "step"
    /\ \A c \in DOMAIN hist.since : hist.since[c] >= 2

\* C1: in the circuit of two Switches into an AND gate into an LED, once
\* both switches were set and step() was called twice, LED.lit is the
\* conjunction of the two switch states, whatever state the simulation was
\* in before (after a reset() too).
C1_AndSettlesInTwoSteps ==
    SetThenSteppedTwice =>
        comp[get_component("led1")].attrs.lit
            = (comp[get_component("s1")].attrs.state /\ comp[get_component("s2")].attrs.state)

C1_Witness ==
    /\ SetThenSteppedTwice
    /\ \A c \in DOMAIN hist.since : hist.since[c] = 2
    /\ sim.tick_count = 2
    /\ sim.running
    /\ comp[get_component("led1")].attrs.lit
    /\ comp[get_component("s1")].attrs.state
    /\ comp[get_component("s2")].attrs.state

-----------------------------------------------------------------------------
(* Claims about the engine *)

IsOutput(p) == pin[p].pin_type = OUTPUT

WiresOfCircuit == DictObjs(circuit.wires)

\* The wires of the circuit with exactly one OUTPUT endpoint
OneOutput(w) == IsOutput(wire[w].start_pin) # IsOutput(wire[w].end_pin)

\* Its OUTPUT endpoint, and the other one
Source(w) == IF IsOutput(wire[w].start_pin) THEN wire[w].start_pin ELSE wire[w].end_pin
Sink(w) == IF IsOutput(wire[w].start_pin) THEN wire[w].end_pin ELSE wire[w].start_pin

\* The wires of the circuit that drive pin p: p is one endpoint and the
\* other endpoint is an OUTPUT pin
Drivers(p) ==
    {w \in WiresOfCircuit :
        \/ wire[w].end_pin = p /\ IsOutput(wire[w].start_pin)
        \/ wire[w].start_pin = p /\ IsOutput(wire[w].end_pin)}

\* p is the end pin of a wire of the circuit that starts at an OUTPUT pin
JoinedToOutput(p) ==
    \E w \in WiresOfCircuit : wire[w].end_pin = p /\ IsOutput(wire[w].start_pin)

CarriesSource(w) ==
    /\ wire[w].signal = pin[Source(w)].signal
    /\ Drivers(Sink(w)) = {w} => pin[Sink(w)].signal = pin[Source(w)].signal

C3_StepIsBounded ==
    call.op = "step" =>
        /\ call.exc = NoExc
        /\ call.passes >= 1
        /\ call.passes <= SIM_MAX_PROPAGATION_DEPTH
        /\ call.warned => call.passes = SIM_MAX_PROPAGATION_DEPTH
        /\ \A c \in DictObjs(circuit.components) :
              comp[c].kind = "Clock" =>
                 /\ pin[<<c, "out">>].signal = from_bool(comp[c].attrs.state)
                 /\ \A w \in WiresOfCircuit :
                       wire[w].start_pin = <<c, "out">> =>
                          /\ wire[w].signal = pin[<<c, "out">>].signal
                          /\ pin[wire[w].end_pin].signal = pin[<<c, "out">>].signal

\* A step() of the circuit with the free-running Clock: the bound was
\* reached and the warning printed
C3_Witness ==
    /\ call.op = "step"
    /\ call.warned
    /\ call.passes = SIM_MAX_PROPAGATION_DEPTH
    /\ DictHas(circuit.components, "clk")
    /\ sim.tick_count = 2

\* C5: reset() (and start(), which calls it) sets tick_count to 0 and the
\* signal of every pin and every wire of the circuit to UNKNOWN, and leaves
\* the components as they were: stored bits, Register value, last clock
\* level, Clock state and counter, source states, LED lit flag.
C5_ResetClearsSignalsOnly ==
    [][call'.op \in {"reset", "start"} =>
          /\ sim'.tick_count = 0
          /\ \A p \in CircuitPins(St)' : pin'[p].signal = UNKNOWN
          /\ \A w \in DictObjs(circuit'.wires) : wire'[w].signal = UNKNOWN
          /\ comp' = comp
          /\ circuit' = circuit]_vars

\* A reset() of the circuit of stateful components, each holding a state it
\* was not constructed with
C5_Witness ==
    /\ call.op = "reset"
    /\ DictHas(circuit.components, "sr")
    /\ comp[get_component("sr")].attrs.state
    /\ comp[get_component("reg")].attrs.value = 1
    /\ comp[get_component("reg")].attrs.last_clock
    /\ comp[get_component("c")].attrs.state
    /\ comp[get_component("p")].attrs.pressed
    /\ comp[get_component("o")].attrs.value
    /\ \A p \in DOMAIN pin : pin[p].signal = UNKNOWN

-----------------------------------------------------------------------------
(* Claims about the flip-flops *)

\* The pins as the evaluations of a step() from the current state see them
Seen == propagate_signals(St, 1)

\* At least one step() was made since the CLK switch was last changed (or
\* since construction, when it never was)
ClkHeld ==
    \/ hist.since[get_component("clk")] >= 1
    \/ hist.since[get_component("clk")] < 0 /\ sim.tick_count >= 1

\* C6: the D flip-flop's stored bit changes only in a step() whose
\* evaluation finds the last sampled CLK level false and CLK HIGH, and then
\* it is the D level of that evaluation; a further step() with CLK held
\* changes neither the stored bit nor Q, whatever D is.
C6_DFlipFlopEdgeTriggered ==
    [][LET ff == get_component("ff")
       IN /\ comp'[ff].attrs.state # comp[ff].attrs.state =>
                /\ call'.op = "step"
                /\ ~comp[ff].attrs.last_clock
                /\ IsHigh(Seen, <<ff, "CLK">>)
                /\ comp'[ff].attrs.state = IsHigh(Seen, <<ff, "D">>)
          /\ (call'.op = "step" /\ ClkHeld) =>
                /\ comp'[ff].attrs.state = comp[ff].attrs.state
                /\ pin'[<<ff, "Q">>].signal = pin[<<ff, "Q">>].signal]_vars

\* The bit was latched HIGH, D went LOW and was stepped with CLK held: Q is
\* still HIGH
C6_Witness ==
    /\ call.op = "step"
    /\ ClkHeld
    /\ comp[get_component("clk")].attrs.state
    /\ comp[get_component("ff")].attrs.state
    /\ pin[<<get_component("ff"), "Q">>].signal = HIGH
    /\ pin[<<get_component("ff"), "D">>].signal = LOW
    /\ ~comp[get_component("d")].attrs.state

\* C7: the JK flip-flop's stored bit changes in a step() whose evaluation
\* finds a rising edge of CLK, by J and K (both: toggled, J only: true, K
\* only: false, neither: held), and in no other call; and two consecutive
\* rising edges with J and K both HIGH return the bit to what it was.
C7_JKFlipFlop ==
    /\ [][LET ff == get_component("ff")
              bit == comp[ff].attrs.state
              j == IsHigh(Seen, <<ff, "J">>)
              k == IsHigh(Seen, <<ff, "K">>)
              rising == /\ call'.op = "step"
                        /\ ~comp[ff].attrs.last_clock
                        /\ IsHigh(Seen, <<ff, "CLK">>)
          IN comp'[ff].attrs.state =
                IF ~rising THEN bit
                ELSE IF j /\ k THEN ~bit
                ELSE IF j THEN TRUE
                ELSE IF k THEN FALSE
                ELSE bit]_vars
    /\ [](Len(hist.edges) = 2 =>
            /\ hist.edges[2].before = hist.edges[1].after
            /\ (hist.edges[1].toggle /\ hist.edges[2].toggle) =>
                  hist.edges[2].after = hist.edges[1].before)

\* The step() of the second of two rising edges with J and K both HIGH
C7_Witness ==
    /\ call.op = "step"
    /\ Len(hist.edges) = 2
    /\ hist.edges[1].toggle
    /\ hist.edges[2].toggle
    /\ hist.edges[1].after # hist.edges[1].before
    /\ comp[get_component("ff")].attrs.last_clock
    /\ hist.since[get_component("clk")] = 1
    /\ comp[get_component("ff")].attrs.state = hist.edges[1].before

-----------------------------------------------------------------------------
(* Claims about the engine's pin access *)

\* The pin a call names, when the component and the pin exist
Asked == <<DictGet(circuit.components, call'.id), call'.pin_name>>

\* C12: set_input and toggle_input write the pin's signal (the given
\* boolean, the negation of "signal is HIGH") when the component exists, the
\* pin exists and the pin is INPUT, and change nothing otherwise; get_output
\* returns the pin's signal, or UNKNOWN when the component or the pin is
\* absent, and changes nothing; none of them raises.
C12_PinAccessGuarded ==
    [][/\ call'.op \in {"set_input", "toggle_input"} =>
            /\ call'.exc = NoExc
            /\ sim' = sim
            /\ IF IsInputOf(St, call'.id, call'.pin_name)
               THEN /\ pin' = [pin EXCEPT ![Asked].signal =
                                  IF call'.op = "set_input"
                                  THEN from_bool(call'.value)
                                  ELSE from_bool(pin[Asked].signal # HIGH)]
                    /\ comp' = comp /\ wire' = wire /\ circuit' = circuit
               ELSE St' = St
       /\ call'.op = "get_output" =>
            /\ call'.exc = NoExc
            /\ St' = St /\ sim' = sim
            /\ call'.result =
                 IF call'.present /\ Asked \in DOMAIN pin
                 THEN pin[Asked].signal ELSE UNKNOWN]_vars

\* toggle_input of the AND gate's in0, which was HIGH, and is LOW now
C12_Witness ==
    /\ call.op = "toggle_input"
    /\ call.id = "and1"
    /\ call.pin_name = "in0"
    /\ pin[<<get_component("and1"), "in0">>].signal = LOW
    /\ pin[<<get_component("s1"), "out">>].signal = HIGH
    /\ wire[DictGet(circuit.wires, "w1")].signal = HIGH

-----------------------------------------------------------------------------
\* utils/boolean_algebra.py.  A Python str is the sequence of its characters.
\* A character is a one-character string; the characters outside ASCII are
\* named by their code points.
Bullet == "U+2022"
LogicalAnd == "U+2227"
LogicalOr == "U+2228"
NotSign == "U+00AC"
CirclePlus == "U+2295"
RightArrow == "U+2192"
Identical == "U+2261"
UpArrow == "U+2191"
DownArrow == "U+2193"

\* the characters of the expressions below, by increasing code point
CodePoints ==
    <<" ", "!", "&", "(", ")", "*", "+", "-", "0", "1", "<", "=", ">",
      "A", "B", "C", "D", "E", "F", "I", "L", "M", "N", "O", "P", "Q", "R",
      "T", "X", "^",
      "a", "b", "c", "d", "e", "i", "l", "m", "n", "o", "p", "q", "r", "s",
      "t", "u", "x", "|", "~",
      NotSign, Bullet, UpArrow, RightArrow, DownArrow, LogicalAnd, LogicalOr,
      Identical, CirclePlus>>

ord(c) == CHOOSE i \in 1..Len(CodePoints) : CodePoints[i] = c

Upper == {"A", "B", "C", "D", "E", "F", "I", "L", "M", "N", "O", "P", "Q",
          "R", "T", "X"}
Lower == {"a", "b", "c", "d", "e", "i", "l", "m", "n", "o", "p", "q", "r",
          "s", "t", "u", "x"}
isalpha(c) == c \in Upper \cup Lower
isspace(c) == c = " "
\* the characters the regular expressions call \w
IsWord(c) == isalpha(c) \/ c \in {"0", "1"}

\* the index of the last character of the longest run of characters
\* satisfying P that starts at s[i]; i - 1 when s[i] does not satisfy P
RunEnd(s, i, P(_)) ==
    CHOOSE j \in (i - 1)..Len(s) :
        /\ \A k \in i..j : P(s[k])
        /\ j = Len(s) \/ ~P(s[j + 1])

\* the indices of s at which Test holds, in increasing order
Indices(s, Test(_)) == SelectSeq([i \in DOMAIN s |-> i], Test)

Min(set) == CHOOSE p \in set : \A q \in set : p <= q

\* the run of whitespace that ends s, as RunEnd finds the one that starts it
SpaceStart(s) ==
    CHOOSE i \in 1..(Len(s) + 1) :
        /\ \A k \in i..Len(s) : isspace(s[k])
        /\ i = 1 \/ ~isspace(s[i - 1])

\* str.strip()
strip(s) == SubSeq(s, RunEnd(s, 1, isspace) + 1, SpaceStart(s) - 1)

\* old stands in s at index i
FoundAt(s, i, old) ==
    i + Len(old) - 1 <= Len(s) /\ SubSeq(s, i, i + Len(old) - 1) = old

\* str.replace(old, new), old not empty: the occurrences of old found from
\* the left, none overlapping another
RECURSIVE replace(_, _, _)
replace(s, old, new) ==
    IF \A i \in DOMAIN s : ~FoundAt(s, i, old) THEN s
    ELSE SubSeq(s, 1, Min({i \in DOMAIN s : FoundAt(s, i, old)}) - 1) \o new
           \o replace(SubSeq(s, Min({i \in DOMAIN s : FoundAt(s, i, old)})
                                  + Len(old), Len(s)),
                      old, new)

\* BooleanExpression: the operator tables
AND_OPS == << <<"&">>, <<Bullet>>, <<LogicalAnd>>, <<"*">>,
              <<"a", "n", "d">>, <<"A", "N", "D">> >>
OR_OPS == << <<"|">>, <<LogicalOr>>, <<"+">>, <<"o", "r">>, <<"O", "R">> >>
NOT_OPS == << <<"!">>, <<NotSign>>, <<"~">>, <<"n", "o", "t">>,
              <<"N", "O", "T">> >>
XOR_OPS == << <<"^">>, <<CirclePlus>>, <<"x", "o", "r">>, <<"X", "O", "R">> >>
IMPL_OPS == << <<"-", ">">>, <<RightArrow>>, <<"=", ">">>,
               <<"i", "m", "p", "l">>, <<"I", "M", "P", "L">> >>
EQ_OPS == << <<"=">>, <<Identical>>, <<"~">>, <<"<", "-", ">">>,
             <<"<", "=", ">">>, <<"e", "q">>, <<"E", "Q">> >>
NAND_OPS == << <<UpArrow>>, <<"n", "a", "n", "d">>, <<"N", "A", "N", "D">> >>
NOR_OPS == << <<DownArrow>>, <<"n", "o", "r">>, <<"N", "O", "R">> >>

\* for op in ops: expr = expr.replace(op, new)
RECURSIVE replace_each(_, _, _)
replace_each(expr, ops, new) ==
    IF ops = <<>> THEN expr
    ELSE replace_each(replace(expr, Head(ops), new), Tail(ops), new)

LongerThanOne(op) == Len(op) > 1
Except(ops, token) == SelectSeq(ops, LAMBDA op : op # <<token>>)

\* BooleanExpression._normalize: the passes in the order of the code
_normalize(expr) ==
    LET e1 == replace_each(strip(expr), SelectSeq(IMPL_OPS, LongerThanOne),
                           <<RightArrow>>)
        e2 == replace_each(e1, SelectSeq(EQ_OPS, LongerThanOne), <<Identical>>)
        e3 == replace_each(e2, Except(AND_OPS, "&"), <<"&">>)
        e4 == replace_each(e3, Except(OR_OPS, "|"), <<"|">>)
        e5 == replace_each(e4, Except(NOT_OPS, "!"), <<"!">>)
        e6 == replace_each(e5, Except(XOR_OPS, "^"), <<"^">>)
        e7 == replace_each(e6, Except(NAND_OPS, UpArrow), <<UpArrow>>)
    IN replace_each(e7, Except(NOR_OPS, DownArrow), <<DownArrow>>)

\* No circuit is involved in the analysis of an expression.
NoCircuit ==
    /\ comp = <<>>
    /\ pin = <<>>
    /\ wire = <<>>
    /\ circuit = NewCircuit
    /\ sim = NewEngine
    /\ hist = NoHistory

\* The spellings of the eight operators, each with its canonical token first.
Spellings ==
    << << <<"&">>, <<"a", "n", "d">>, <<"A", "N", "D">>, <<"*">>,
          <<LogicalAnd>> >>,
       << <<"|">>, <<"o", "r">>, <<"O", "R">>, <<"+">>, <<LogicalOr>> >>,
       << <<"!">>, <<"n", "o", "t">>, <<"N", "O", "T">>, <<NotSign>> >>,
       << <<"^">>, <<"x", "o", "r">>, <<"X", "O", "R">>, <<CirclePlus>> >>,
       << <<RightArrow>>, <<"-", ">">>, <<"=", ">">>,
          <<"i", "m", "p", "l">> >>,
       << <<Identical>>, <<"<", "-", ">">>, <<"<", "=", ">">>, <<"=">>,
          <<"e", "q">> >>,
       << <<UpArrow>>, <<"n", "a", "n", "d">>, <<"N", "A", "N", "D">> >>,
       << <<DownArrow>>, <<"n", "o", "r">>, <<"N", "O", "R">> >> >>

\* what stands to the left and to the right of the operator
Contexts ==
    << [left |-> <<>>, right |-> <<>>],
       [left |-> <<"A", " ">>, right |-> <<" ", "B">>],
       [left |-> <<"(", "A", ")">>, right |-> <<"(", "B", ")">>] >>

Spelled(k, j, x) == Contexts[x].left \o Spellings[k][j] \o Contexts[x].right

InitNormalize ==
    /\ NoCircuit
    /\ \E k \in DOMAIN Spellings : \E j \in DOMAIN Spellings[k] :
         \E x \in DOMAIN Contexts :
           call = [op |-> "expression", operator |-> k, context |-> x,
                   expression |-> Spelled(k, j, x), normalized |-> <<>>]

\* BooleanExpression(expression).normalized
Normalize ==
    /\ call.op = "expression"
    /\ call' = [call EXCEPT !.op = "_normalize",
                            !.normalized = _normalize(call.expression)]
    /\ UNCHANGED <<comp, pin, wire, circuit, sim, hist>>

NextNormalize == Normalize

SpecNormalize == InitNormalize /\ [][NextNormalize]_vars

\* C20: normalization maps every listed spelling of each of the eight
\* operators, alone or between two operands, to the canonical token of that
\* operator (whatever the order of the replacement passes).
C20_SpellingsNormalized ==
    call.op = "_normalize" =>
        call.normalized = Spelled(call.operator, 1, call.context)

\* str.split(): the maximal runs of characters that are not whitespace
NotSpace(c) == ~isspace(c)
WordStarts(s) ==
    Indices(s, LAMBDA i : ~isspace(s[i]) /\ (i = 1 \/ isspace(s[i - 1])))
WordsAt(s, starts) ==
    [k \in DOMAIN starts |-> SubSeq(s, starts[k], RunEnd(s, starts[k], NotSpace))]
split(s) == WordsAt(s, WordStarts(s))

\* a < b for two str: by code points, a proper prefix first
RECURSIVE StrLess(_, _)
StrLess(a, b) ==
    IF b = <<>> THEN FALSE
    ELSE IF a = <<>> THEN TRUE
    ELSE IF Head(a) = Head(b) THEN StrLess(Tail(a), Tail(b))
    ELSE ord(Head(a)) < ord(Head(b))

\* sorted(list(variables)) for a set of str
RECURSIVE sorted(_)
sorted(set) ==
    IF set = {} THEN <<>>
    ELSE LET first == CHOOSE a \in set : \A b \in set \ {a} : StrLess(a, b)
         IN <<first>> \o sorted(set \ {first})

\* the characters _extract_variables replaces by a space
Separators ==
    << <<"&">>, <<"|">>, <<"!">>, <<"^">>, <<RightArrow>>, <<Identical>>,
       <<UpArrow>>, <<DownArrow>>, <<"(">>, <<")">>, <<" ">> >>

\* the tokens that start with a letter, sorted
variables_among(tokens) ==
    sorted({tokens[i] : i \in {j \in DOMAIN tokens : isalpha(tokens[j][1])}})

\* BooleanExpression._extract_variables
_extract_variables(normalized) ==
    variables_among(split(replace_each(normalized, Separators, <<" ">>)))

\* the regular expression \b between two neighbouring characters of s, the
\* one at index i - 1 and the one at index i
Boundary(s, i) ==
    (i - 1 \in DOMAIN s /\ IsWord(s[i - 1])) # (i \in DOMAIN s /\ IsWord(s[i]))

\* \bvar\b matches in s at index i
WordAt(s, i, var) ==
    FoundAt(s, i, var) /\ Boundary(s, i) /\ Boundary(s, i + Len(var))

\* re.sub(r'\b' + re.escape(var) + r'\b', repl, s), for what follows the
\* first from - 1 characters of s: the matches found from the left, none
\* overlapping another
RECURSIVE re_sub_word(_, _, _, _)
re_sub_word(s, from, var, repl) ==
    IF \A i \in from..Len(s) : ~WordAt(s, i, var) THEN SubSeq(s, from, Len(s))
    ELSE SubSeq(s, from, Min({i \in from..Len(s) : WordAt(s, i, var)}) - 1)
           \o repl
           \o re_sub_word(s, Min({i \in from..Len(s) : WordAt(s, i, var)})
                               + Len(var), var, repl)

PyTrue == <<"T", "r", "u", "e">>
PyFalse == <<"F", "a", "l", "s", "e">>

\* for var, val in values.items(): expr = re.sub(...); values is the dict,
\* a sequence of [key, val] in insertion order
RECURSIVE substitute(_, _)
substitute(expr, values) ==
    IF values = <<>> THEN expr
    ELSE substitute(re_sub_word(expr, 1, Head(values).key,
                                IF Head(values).val THEN PyTrue ELSE PyFalse),
                    Tail(values))

\* (\w+|True|False)\s*op\s*(\w+|True|False) matched at s[i]: the two groups
\* and the index of the last character matched, or ok = FALSE.  The first
\* group ends at a, the operator is at o, the second group is s[b..e].
NoMatch == [ok |-> FALSE, a |-> <<>>, b |-> <<>>, end |-> 0]
MatchedGroups(s, i, a, b, e) ==
    IF e >= b
    THEN [ok |-> TRUE, a |-> SubSeq(s, i, a), b |-> SubSeq(s, b, e), end |-> e]
    ELSE NoMatch
MatchSecond(s, i, a, b) == MatchedGroups(s, i, a, b, RunEnd(s, b, IsWord))
MatchOperator(s, i, op, a, o) ==
    IF a >= i /\ o <= Len(s) /\ s[o] = op
    THEN MatchSecond(s, i, a, RunEnd(s, o + 1, isspace) + 1)
    ELSE NoMatch
MatchFirst(s, i, op, a) ==
    MatchOperator(s, i, op, a, RunEnd(s, a + 1, isspace) + 1)
MatchAt(s, i, op) == MatchFirst(s, i, op, RunEnd(s, i, IsWord))

Chars_not == <<"n", "o", "t">>
Chars_and == <<"a", "n", "d">>
Chars_or == <<"o", "r">>

\* f'(not {a} or {b})'
impl_rewritten(a, b) ==
    <<"(">> \o Chars_not \o <<" ">> \o a \o <<" ">> \o Chars_or \o <<" ">>
       \o b \o <<")">>

\* f'(({a} and {b}) or (not {a} and not {b}))'
eq_rewritten(a, b) ==
    <<"(", "(">> \o a \o <<" ">> \o Chars_and \o <<" ">> \o b \o <<")", " ">>
       \o Chars_or \o <<" ", "(">> \o Chars_not \o <<" ">> \o a \o <<" ">>
       \o Chars_and \o <<" ">> \o Chars_not \o <<" ">> \o b \o <<")", ")">>

\* f'not ({a} and {b})'
nand_rewritten(a, b) ==
    Chars_not \o <<" ", "(">> \o a \o <<" ">> \o Chars_and \o <<" ">> \o b
       \o <<")">>

\* f'not ({a} or {b})'
nor_rewritten(a, b) ==
    Chars_not \o <<" ", "(">> \o a \o <<" ">> \o Chars_or \o <<" ">> \o b
       \o <<")">>

\* the replacement of one match of the operator op
rewritten(op, a, b) ==
    CASE op = RightArrow -> impl_rewritten(a, b)
      [] op = Identical -> eq_rewritten(a, b)
      [] op = UpArrow -> nand_rewritten(a, b)
      [] op = DownArrow -> nor_rewritten(a, b)

\* the match m, found at index first, replaced by rewritten(a, b)
match_rewritten(expr, op, first, m) ==
    SubSeq(expr, 1, first - 1) \o rewritten(op, m.a, m.b)
        \o SubSeq(expr, m.end + 1, Len(expr))

\* the first match of re.search replaced
first_rewritten(expr, op, first) ==
    match_rewritten(expr, op, first, MatchAt(expr, first, op))

\* while op in expr: match = re.search(...); the first match is replaced by
\* rewritten(a, b), and the loop breaks when there is none
RECURSIVE rewrite_binary(_, _)
rewrite_binary(expr, op) ==
    IF \A i \in DOMAIN expr : ~MatchAt(expr, i, op).ok THEN expr
    ELSE rewrite_binary(
             first_rewritten(expr, op,
                             Min({i \in DOMAIN expr : MatchAt(expr, i, op).ok})),
             op)

\* the Python source that evaluate hands to eval()
python_source(normalized, values) ==
    rewrite_binary(
      rewrite_binary(
        rewrite_binary(
          rewrite_binary(
            replace(
              replace(
                replace(
                  replace(substitute(normalized, values), <<"&">>,
                          <<" ">> \o Chars_and \o <<" ">>),
                  <<"|">>, <<" ">> \o Chars_or \o <<" ">>),
                <<"!">>, <<" ">> \o Chars_not \o <<" ">>),
              <<"^">>, <<" ", "!", "=", " ">>),
            RightArrow),
          Identical),
        UpArrow),
      DownArrow)

\* The tokens of the Python source: True, False, not, and, or, !=, ( and ).
\* A number made of the digits 0 and 1 is the token of its truth value, which
\* compares as the number does (0 == False, 1 == True); a number with a
\* leading zero and a nonzero digit is no token.  Any other word is a name,
\* and any other character is no token of an expression ("bad").
Keyword(word) ==
    CASE word = PyTrue -> "True"
      [] word = PyFalse -> "False"
      [] word = Chars_not -> "not"
      [] word = Chars_and -> "and"
      [] word = Chars_or -> "or"
      [] OTHER ->
           IF \A i \in DOMAIN word : word[i] \in {"0", "1"}
           THEN IF \A i \in DOMAIN word : word[i] = "0" THEN "False"
                ELSE IF word[1] = "0" THEN "bad" ELSE "True"
           ELSE IF isalpha(word[1]) THEN "name" ELSE "bad"

\* the indices at which a token starts: a word, "!=", or one character
\* that is not whitespace
TokenStarts(s) ==
    Indices(s, LAMBDA i :
                 /\ ~isspace(s[i])
                 /\ IsWord(s[i]) => (i = 1 \/ ~IsWord(s[i - 1]))
                 /\ s[i] = "=" => (i = 1 \/ s[i - 1] # "!"))

TokenAt(s, i) ==
    IF IsWord(s[i]) THEN Keyword(SubSeq(s, i, RunEnd(s, i, IsWord)))
    ELSE IF FoundAt(s, i, <<"!", "=">>) THEN "!="
    ELSE IF s[i] \in {"(", ")"} THEN s[i]
    ELSE "bad"

TokensAt(s, starts) == [k \in DOMAIN starts |-> TokenAt(s, starts[k])]
tokenize(s) == TokensAt(s, TokenStarts(s))

\* the pieces of a token list between the occurrences of the token sep,
\* which are at the indices at
PiecesBetween(toks, at) ==
    [k \in 1..(Len(at) + 1) |->
       SubSeq(toks, IF k = 1 THEN 1 ELSE at[k - 1] + 1,
              IF k > Len(at) THEN Len(toks) ELSE at[k] - 1)]
SplitOn(toks, sep) == PiecesBetween(toks, Indices(toks, LAMBDA i : toks[i] = sep))

IsAtom(tok) == tok \in {"True", "False"}

\* comparison: atom ('!=' atom)*
IsComparison(toks) ==
    /\ Len(toks) % 2 = 1
    /\ \A i \in DOMAIN toks : IF i % 2 = 1 THEN IsAtom(toks[i])
                                           ELSE toks[i] = "!="

\* a != b != c is (a != b) and (b != c)
ComparisonValue(toks) ==
    IF Len(toks) = 1 THEN toks[1] = "True"
    ELSE \A i \in 1..(Len(toks) \div 2) : toks[2 * i - 1] # toks[2 * i + 1]

\* not_test: 'not' not_test | comparison
Nots(toks) == RunEnd(toks, 1, LAMBDA tok : tok = "not")
IsNotTest(toks) == IsComparison(SubSeq(toks, Nots(toks) + 1, Len(toks)))
NotTestValue(toks) ==
    ComparisonValue(SubSeq(toks, Nots(toks) + 1, Len(toks)))
        = (Nots(toks) % 2 = 0)

\* and_test: not_test ('and' not_test)*
AllNotTests(pieces) == \A i \in DOMAIN pieces : IsNotTest(pieces[i])
IsAndTest(toks) == AllNotTests(SplitOn(toks, "and"))
AllHold(pieces) == \A i \in DOMAIN pieces : NotTestValue(pieces[i])
AndTestValue(toks) == AllHold(SplitOn(toks, "and"))

\* or_test: and_test ('or' and_test)*, without parentheses: its token, or
\* "error" for what Python does not parse
OneOf(pieces) ==
    IF \E i \in DOMAIN pieces : ~IsAndTest(pieces[i]) THEN "error"
    ELSE IF \E i \in DOMAIN pieces : AndTestValue(pieces[i]) THEN "True"
    ELSE "False"
OrTestValue(toks) == OneOf(SplitOn(toks, "or"))

\* the first ")" of the token list, and the last "(" before it, 0 if none
FirstClose(toks) == Min({j \in DOMAIN toks : toks[j] = ")"})
LastOpen(toks, close) ==
    IF \A i \in 1..(close - 1) : toks[i] # "(" THEN 0
    ELSE CHOOSE i \in 1..(close - 1) :
             toks[i] = "(" /\ \A k \in (i + 1)..(close - 1) : toks[k] # "("

\* the value of what stands between the parentheses at open and close
InnerValue(toks, open, close) ==
    OrTestValue(SubSeq(toks, open + 1, close - 1))

\* the parenthesis can be evaluated and stand as an atom: it parses, and no
\* atom is written before it (that would be a call of the atom)
ReducibleAt(toks, open, close) ==
    /\ open > 0
    /\ InnerValue(toks, open, close) # "error"
    /\ ~(open > 1 /\ IsAtom(toks[open - 1]))
Reducible(toks) ==
    /\ \E j \in DOMAIN toks : toks[j] = ")"
    /\ ReducibleAt(toks, LastOpen(toks, FirstClose(toks)), FirstClose(toks))

ReducedAt(toks, open, close) ==
    SubSeq(toks, 1, open - 1) \o <<InnerValue(toks, open, close)>>
        \o SubSeq(toks, close + 1, Len(toks))
Reduced(toks) ==
    ReducedAt(toks, LastOpen(toks, FirstClose(toks)), FirstClose(toks))

\* eval() of the token list: the innermost parenthesis (the first ")" and
\* the last "(" before it) is evaluated and stands as an atom; "error" is
\* any exception: what does not parse, a name, and an atom called as a
\* function, written before a "(".
RECURSIVE py_eval(_)
py_eval(toks) ==
    IF \A i \in DOMAIN toks : toks[i] \notin {"(", ")"}
    THEN OrTestValue(toks)
    ELSE IF ~Reducible(toks) THEN "error"
    ELSE py_eval(Reduced(toks))

Returns(value) == [exc |-> NoExc, value |-> value]
Raises(exc) == [exc |-> exc, value |-> FALSE]

\* what evaluate does with the value of eval()
evaluated(value) ==
    IF value = "error" THEN Raises("ValueError") ELSE Returns(value = "True")

\* BooleanExpression.evaluate, of the expression whose self.normalized is
\* normalized: bool(eval(expr)), any exception raised as ValueError
evaluate_expression(normalized, values) ==
    evaluated(py_eval(tokenize(python_source(normalized, values))))

\* bit j (0 the least significant) of the number x
Bit(x, j) == (x \div Pow2(j)) % 2 = 1

\* itertools.product([False, True], repeat=n): the tuples in the order of
\* nested loops, the first element the outermost loop
RECURSIVE product(_)
product(n) ==
    IF n = 0 THEN << <<>> >>
    ELSE [i \in 1..Len(product(n - 1)) |-> <<FALSE>> \o product(n - 1)[i]]
           \o [i \in 1..Len(product(n - 1)) |-> <<TRUE>> \o product(n - 1)[i]]

\* dict(zip(variables, combination))
zipped(variables, combination) ==
    [i \in DOMAIN variables |-> [key |-> variables[i], val |-> combination[i]]]

\* TruthTable(variables, rows), or the exception raised instead of it
TruthTable(variables, rows) ==
    [exc |-> NoExc, variables |-> variables, rows |-> rows]
NoTruthTable(exc) == [exc |-> exc, variables |-> <<>>, rows |-> <<>>]

\* the rows of generate_truth_table; outputs[i] is what evaluate did for
\* the i-th combination
table_rows(variables, outputs) ==
    IF \E i \in DOMAIN outputs : outputs[i].exc # NoExc
    THEN NoTruthTable("ValueError")
    ELSE TruthTable(variables,
                    [i \in DOMAIN outputs |->
                       [inputs |-> zipped(variables,
                                          product(Len(variables))[i]),
                        output |-> outputs[i].value]])

table_of(normalized, variables) ==
    IF variables = <<>> THEN NoTruthTable("ValueError")
    ELSE table_rows(variables,
                    [i \in DOMAIN product(Len(variables)) |->
                       evaluate_expression(
                           normalized,
                           zipped(variables, product(Len(variables))[i]))])

\* generate_truth_table(expression); normalized and variables are its
\* locals, each computed once (the element of a set of one)
generate_truth_table(expression) ==
    CHOOSE table \in
        {table_of(normalized, variables) :
            <<normalized, variables>> \in
                {<<n, _extract_variables(n)>> : n \in {_normalize(expression)}}} :
        TRUE

\* the value of a variable in a dict of values
ValueOf(values, var) ==
    LET i == CHOOSE j \in DOMAIN values : values[j].key = var
    IN values[i].val

\* sep.join(strs)
RECURSIVE join(_, _)
join(sep, strs) ==
    IF strs = <<>> THEN <<>>
    ELSE IF Len(strs) = 1 THEN strs[1]
    ELSE Head(strs) \o sep \o join(sep, Tail(strs))

\* TruthTable.get_minterms, TruthTable.get_maxterms
get_minterms(truth_table) == SelectSeq(truth_table.rows, LAMBDA row : row.output)
get_maxterms(truth_table) == SelectSeq(truth_table.rows, LAMBDA row : ~row.output)

\* "(" + sep.join(literals) + ")", the variables whose value in the row is
\* in negated written with "!"
term_of(row, variables, sep, negated) ==
    <<"(">> \o join(<<sep>>,
                    [i \in DOMAIN variables |->
                       IF ValueOf(row.inputs, variables[i]) \in negated
                       THEN <<"!">> \o variables[i] ELSE variables[i]])
        \o <<")">>

calculate_pdnf_unnegated(truth_table) ==
    IF get_minterms(truth_table) = <<>> THEN <<"0">>
    ELSE join(<<" ", "|", " ">>,
              [i \in DOMAIN get_minterms(truth_table) |->
                 term_of(get_minterms(truth_table)[i], truth_table.variables,
                         "&", {})])

\* calculate_pdnf(truth_table)
calculate_pdnf(truth_table) ==
    IF get_minterms(truth_table) = <<>> THEN <<"0">>
    ELSE join(<<" ", "|", " ">>,
              [i \in DOMAIN get_minterms(truth_table) |->
                 term_of(get_minterms(truth_table)[i], truth_table.variables,
                         "&", {FALSE})])

\* calculate_pcnf(truth_table)
calculate_pcnf(truth_table) ==
    IF get_maxterms(truth_table) = <<>> THEN <<"1">>
    ELSE join(<<" ", "&", " ">>,
              [i \in DOMAIN get_maxterms(truth_table) |->
                 term_of(get_maxterms(truth_table)[i], truth_table.variables,
                         "|", {TRUE})])

\* the next row of the triangle: (prev_row[j] + prev_row[j + 1]) % 2
triangle_row(prev_row) ==
    [j \in 1..(Len(prev_row) - 1) |-> (prev_row[j] + prev_row[j + 1]) % 2]

\* the triangle after n more passes of "for i in range(n)", row being its
\* last row
RECURSIVE triangle_from(_, _)
triangle_from(row, n) ==
    IF n = 0 THEN <<row>>
    ELSE <<row>> \o triangle_from(triangle_row(row), n - 1)

\* triangle = [outputs]; for i in range(n): ...
triangle(outputs, n) == triangle_from(outputs, n)

\* "&".join([truth_table.variables[j] for j in var_indices])
var_term(var_indices, variables) ==
    join(<<"&">>, [k \in DOMAIN var_indices |-> variables[var_indices[k]]])

\* the term of coefficient i (from 0): "1", or the variables[j] for the
\* bits j of i (<<>> when i has no such bit: no term)
zhegalkin_term(i, variables) ==
    IF i = 0 THEN <<"1">>
    ELSE var_term(Indices(variables, LAMBDA j : Bit(i, j - 1)), variables)

\* the terms of the coefficients at the indices ones of the triangle
terms_at(ones, variables) ==
    [k \in DOMAIN ones |-> zhegalkin_term(ones[k] - 1, variables)]

\* coefficients = [triangle[i][0] for i in range(len(triangle))], and the
\* terms of those that are 1
zhegalkin_terms(rows, variables) ==
    terms_at(Indices(rows, LAMBDA i : rows[i][1] = 1
                                  /\ zhegalkin_term(i - 1, variables) # <<>>),
             variables)

\* "0" if not terms, else " (+) ".join(terms)
zhegalkin_polynomial(terms) ==
    IF terms = <<>> THEN <<"0">> ELSE join(<<" ", CirclePlus, " ">>, terms)

\* outputs = [int(row.output) for row in truth_table.rows]
output_column(truth_table) ==
    [r \in DOMAIN truth_table.rows |->
       IF truth_table.rows[r].output THEN 1 ELSE 0]

\* calculate_zhegalkin(truth_table)
calculate_zhegalkin(truth_table) ==
    zhegalkin_polynomial(
        zhegalkin_terms(triangle(output_column(truth_table),
                                 Len(truth_table.variables)),
                        truth_table.variables))

\* TruthTableRow.to_dict: {**self.inputs, 'F': self.output}
to_dict(row) ==
    IF \E i \in DOMAIN row.inputs : row.inputs[i].key = <<"F">>
    THEN [i \in DOMAIN row.inputs |->
            IF row.inputs[i].key = <<"F">>
            THEN [key |-> <<"F">>, val |-> row.output] ELSE row.inputs[i]]
    ELSE Append(row.inputs, [key |-> <<"F">>, val |-> row.output])

\* TruthTable.to_list
to_list(truth_table) ==
    [r \in DOMAIN truth_table.rows |-> to_dict(truth_table.rows[r])]

\* the dict that analyze_boolean_function returns, or the exception that
\* generate_truth_table raised
NoAnalysis ==
    [exc |-> NoExc, variables |-> <<>>, truth_table |-> <<>>,
     pdnf |-> <<>>, pcnf |-> <<>>, zhegalkin |-> <<>>]

analysis_of(truth_table) ==
    IF truth_table.exc # NoExc THEN [NoAnalysis EXCEPT !.exc = truth_table.exc]
    ELSE [exc |-> NoExc,
          variables |-> truth_table.variables,
          truth_table |-> to_list(truth_table),
          pdnf |-> calculate_pdnf(truth_table),
          pcnf |-> calculate_pcnf(truth_table),
          zhegalkin |-> calculate_zhegalkin(truth_table)]

\* analyze_boolean_function(expression)
\* (truth_table is the local, computed once)
analyze_boolean_function(expression) ==
    CHOOSE analysis \in {analysis_of(truth_table) :
                            truth_table \in {generate_truth_table(expression)}} :
        TRUE

\* The expressions analysed.  A form is an operator applied to operands, each
\* a variable or a negated variable, written with a spelling of the operator
\* between the operands; Written(form) is the text of the expression and
\* Value(form, values) is what the expression means.
Lit(var, neg) == [var |-> var, neg |-> neg]
Form(operator, spelling, operands) ==
    [operator |-> operator, spelling |-> spelling, operands |-> operands]
NoForm == Form("", <<>>, <<>>)

WrittenLit(l) == IF l.neg THEN <<"!">> \o l.var ELSE l.var

RECURSIVE Joined(_, _)
Joined(operands, spelling) ==
    IF Len(operands) = 1 THEN WrittenLit(operands[1])
    ELSE WrittenLit(Head(operands)) \o spelling
           \o Joined(Tail(operands), spelling)

Written(form) == Joined(form.operands, form.spelling)

LitValue(l, values) == ValueOf(values, l.var) # l.neg

Value(form, values) ==
    LET v == [i \in DOMAIN form.operands |->
                LitValue(form.operands[i], values)]
    IN CASE form.operator = "&" -> all(v)
         [] form.operator = "|" -> any(v)
         [] form.operator = "^" ->
              Cardinality({i \in DOMAIN v : v[i]}) % 2 = 1
         [] form.operator = RightArrow -> ~v[1] \/ v[2]
         [] form.operator = Identical -> v[1] = v[2]
         [] form.operator = UpArrow -> ~(v[1] /\ v[2])
         [] form.operator = DownArrow -> ~(v[1] \/ v[2])

Names == {<<"A">>, <<"B">>, <<"C">>}
Literals == {Lit(var, neg) : var \in {<<"A">>, <<"B">>}, neg \in BOOLEAN}

\* one variable, plain or negated
OneLiteral == {Form("&", <<"&">>, <<l>>) : l \in Literals}

\* AND, OR and XOR of two literals
OfLiterals ==
    {Form(o, <<o>>, <<l, r>>) : o \in {"&", "|", "^"},
                                 l \in Literals, r \in Literals}

\* the operators that evaluate rewrites, of two variables
Rewritten ==
    {Form(o, <<o>>, <<Lit(a, FALSE), Lit(b, FALSE)>>) :
        o \in {RightArrow, Identical, UpArrow, DownArrow},
        a \in Names, b \in Names}

\* AND, OR and XOR of three variables
Chains ==
    {Form(o, <<o>>, <<Lit(a, FALSE), Lit(b, FALSE), Lit(c, FALSE)>>) :
        o \in {"&", "|", "^"}, a \in Names, b \in Names, c \in Names}

\* names whose order is not the order they are written in
Unsorted ==
    {Form(o, <<o>>, operands) :
        o \in {"&", "|"},
        operands \in {<<Lit(<<"b">>, FALSE), Lit(<<"a">>, FALSE)>>,
                      <<Lit(<<"a">>, FALSE), Lit(<<"B">>, TRUE)>>,
                      <<Lit(<<"a", "b">>, FALSE), Lit(<<"a">>, FALSE),
                        Lit(<<"B">>, FALSE)>>}}

\* every spelling of every operator but NOT, between A and B
Binary == DOMAIN Spellings \ {3}
SpelledOut ==
    UNION {{Form(Spellings[k][1][1], <<" ">> \o Spellings[k][j] \o <<" ">>,
                 <<Lit(<<"A">>, FALSE), Lit(<<"B">>, FALSE)>>) :
              j \in DOMAIN Spellings[k]} : k \in Binary}

Forms ==
    OneLiteral \cup OfLiterals \cup Rewritten \cup Chains \cup Unsorted
        \cup SpelledOut

\* texts that are no expression, or have no variable
Malformed ==
    {<<>>, <<"1">>, <<"A", "&">>, <<"(", "A">>, <<"A", " ", "B">>,
     <<"1", "|", "0">>}

InitAnalysis ==
    /\ NoCircuit
    /\ \/ \E form \in Forms :
            call = [op |-> "expression", form |-> form,
                    expression |-> Written(form),
                    table |-> NoTruthTable(NoExc), analysis |-> NoAnalysis]
       \/ \E expression \in Malformed :
            call = [op |-> "expression", form |-> NoForm,
                    expression |-> expression,
                    table |-> NoTruthTable(NoExc), analysis |-> NoAnalysis]

\* table = generate_truth_table(expression)
GenerateTruthTable ==
    /\ call.op = "expression"
    /\ call' = [call EXCEPT !.op = "generate_truth_table",
                            !.table = generate_truth_table(call.expression)]
    /\ UNCHANGED <<comp, pin, wire, circuit, sim, hist>>

\* analysis = analyze_boolean_function(expression)
AnalyzeBooleanFunction ==
    /\ call.op = "expression"
    /\ call' = [call EXCEPT
                  !.op = "analyze_boolean_function",
                  !.analysis = analyze_boolean_function(call.expression)]
    /\ UNCHANGED <<comp, pin, wire, circuit, sim, hist>>

NextAnalysis == GenerateTruthTable \/ AnalyzeBooleanFunction

SpecAnalysis == InitAnalysis /\ [][NextAnalysis]_vars

\* the rows are the 2^n assignments of the variables V, the r-th row (from
\* 0) the binary numeral r with V[1] the most significant
EnumeratedBigEndian(V, rows) ==
    /\ Len(rows) = Pow2(Len(V))
    /\ \A r \in DOMAIN rows :
         /\ DOMAIN rows[r].inputs = DOMAIN V
         /\ \A k \in DOMAIN V :
              /\ rows[r].inputs[k].key = V[k]
              /\ rows[r].inputs[k].val = Bit(r - 1, Len(V) - k)

\* V lists the variables of the form, sorted by code points
SortedVariables(V, form) ==
    /\ {V[i] : i \in DOMAIN V}
          = {form.operands[i].var : i \in DOMAIN form.operands}
    /\ \A i \in 1..(Len(V) - 1) : StrLess(V[i], V[i + 1])

\* C13: for every expression with a variable, generate_truth_table returns
\* the 2^|V| assignments of its sorted variables, enumerated big-endian
\* (first variable most significant, false before true), each with the
\* value of the expression under it.
C13_TruthTable ==
    (call.op = "generate_truth_table" /\ call.form # NoForm) =>
        /\ call.table.exc = NoExc
        /\ SortedVariables(call.table.variables, call.form)
        /\ EnumeratedBigEndian(call.table.variables, call.table.rows)
        /\ \A r \in DOMAIN call.table.rows :
             call.table.rows[r].output
                 = Value(call.form, call.table.rows[r].inputs)

\* The truth tables of the functions of one, two and three variables.
VariableNames == << <<"A">>, <<"B">>, <<"C">> >>
VariableLists == {SubSeq(VariableNames, 1, n) : n \in DOMAIN VariableNames}

TableOf(variables, outputs) ==
    TruthTable(variables,
               [i \in DOMAIN outputs |->
                  [inputs |-> zipped(variables, product(Len(variables))[i]),
                   output |-> outputs[i]]])

InitForms ==
    /\ NoCircuit
    /\ \E variables \in VariableLists :
         \E outputs \in [1..Pow2(Len(variables)) -> BOOLEAN] :
           call = [op |-> "TruthTable", table |-> TableOf(variables, outputs),
                   result |-> <<>>]

CalculatePdnf ==
    /\ call.op = "TruthTable"
    /\ call' = [call EXCEPT !.op = "calculate_pdnf",
                            !.result = calculate_pdnf(call.table)]
    /\ UNCHANGED <<comp, pin, wire, circuit, sim, hist>>

CalculatePcnf ==
    /\ call.op = "TruthTable"
    /\ call' = [call EXCEPT !.op = "calculate_pcnf",
                            !.result = calculate_pcnf(call.table)]
    /\ UNCHANGED <<comp, pin, wire, circuit, sim, hist>>

CalculateZhegalkin ==
    /\ call.op = "TruthTable"
    /\ call' = [call EXCEPT !.op = "calculate_zhegalkin",
                            !.result = calculate_zhegalkin(call.table)]
    /\ UNCHANGED <<comp, pin, wire, circuit, sim, hist>>

NextForms == CalculatePdnf \/ CalculatePcnf \/ CalculateZhegalkin

SpecForms == InitForms /\ [][NextForms]_vars

\* BooleanExpression(text).evaluate(values)
Evaluated(text, values) == evaluate_expression(_normalize(text), values)

\* C14: the PDNF and the PCNF of a truth table, evaluated as expressions
\* under the assignment of each row, give the output of that row; the PDNF
\* of the always-false table is 0 and the PCNF of the always-true one is 1.
C14_NormalFormsRoundTrip ==
    call.op \in {"calculate_pdnf", "calculate_pcnf"} =>
        /\ \A r \in DOMAIN call.table.rows :
             Evaluated(call.result, call.table.rows[r].inputs)
                 = Returns(call.table.rows[r].output)
        /\ call.op = "calculate_pdnf" =>
             (call.result = <<"0">>) =
                 (\A r \in DOMAIN call.table.rows : ~call.table.rows[r].output)
        /\ call.op = "calculate_pcnf" =>
             (call.result = <<"1">>) =
                 (\A r \in DOMAIN call.table.rows : call.table.rows[r].output)

\* the PDNF of A XOR B is (!A&B) | (A&!B)
C14_Witness ==
    /\ call.op = "calculate_pdnf"
    /\ call.result = <<"(", "!", "A", "&", "B", ")", " ", "|", " ",
                       "(", "A", "&", "!", "B", ")">>
    /\ [r \in DOMAIN call.table.rows |-> call.table.rows[r].output]
         = <<FALSE, TRUE, TRUE, FALSE>>

\* The value of a polynomial under an assignment: the XOR of its monomials,
\* each the AND of its variables, the literal 1 true and 0 false.
FactorValue(factor, values) ==
    IF factor = <<"1">> THEN TRUE
    ELSE IF factor = <<"0">> THEN FALSE
    ELSE ValueOf(values, factor)

MonomialValue(monomial, values) ==
    \A i \in DOMAIN SplitOn(monomial, "&") :
        FactorValue(SplitOn(monomial, "&")[i], values)

PolynomialValue(text, values) ==
    LET monomials == SplitOn(SelectSeq(text, NotSpace), CirclePlus)
    IN Cardinality({i \in DOMAIN monomials :
                       MonomialValue(monomials[i], values)}) % 2 = 1

\* C15: the Zhegalkin polynomial of a truth table of one, two or three
\* variables, evaluated as the XOR of its monomials under the assignment of
\* each row, gives the output of that row.
C15_ZhegalkinRoundTrip ==
    call.op = "calculate_zhegalkin" =>
        \A r \in DOMAIN call.table.rows :
            PolynomialValue(call.result, call.table.rows[r].inputs)
                = call.table.rows[r].output

\* the value of a key in a dict of the truth table
C16_Output(analysis, A, B) ==
    LET r == CHOOSE i \in DOMAIN analysis.truth_table :
                 /\ ValueOf(analysis.truth_table[i], <<"A">>) = A
                 /\ ValueOf(analysis.truth_table[i], <<"B">>) = B
    IN ValueOf(analysis.truth_table[r], <<"F">>)

\* C16: the analysis of A&B gives the outputs F, F, F, T for (A, B) = FF, FT,
\* TF, TT, the PDNF (A&B), the PCNF (A|B)&(A|!B)&(!A|B) (the spaces around
\* the & between the clauses left aside) and the Zhegalkin polynomial A&B.
C16_AnalysisOfAAndB ==
    (call.op = "analyze_boolean_function" /\ call.expression = <<"A", "&", "B">>) =>
        /\ call.analysis.exc = NoExc
        /\ Len(call.analysis.truth_table) = 4
        /\ <<C16_Output(call.analysis, FALSE, FALSE),
             C16_Output(call.analysis, FALSE, TRUE),
             C16_Output(call.analysis, TRUE, FALSE),
             C16_Output(call.analysis, TRUE, TRUE)>>
             = <<FALSE, FALSE, FALSE, TRUE>>
        /\ call.analysis.pdnf = <<"(", "A", "&", "B", ")">>
        /\ SelectSeq(call.analysis.pcnf, NotSpace)
             = <<"(", "A", "|", "B", ")", "&", "(", "A", "|", "!", "B", ")",
                 "&", "(", "!", "A", "|", "B", ")">>
        /\ call.analysis.zhegalkin = <<"A", "&", "B">>

-----------------------------------------------------------------------------
\* utils/circuit_from_form.py

\* re.split(r'\s*sep\s*', s): the pieces of s between the occurrences of the
\* character sep, without the whitespace that touches an occurrence
Trimmed(pieces) ==
    [k \in DOMAIN pieces |->
       SubSeq(pieces[k],
              IF k = 1 THEN 1 ELSE RunEnd(pieces[k], 1, isspace) + 1,
              IF k = Len(pieces) THEN Len(pieces[k])
              ELSE SpaceStart(pieces[k]) - 1)]
re_split(s, sep) == Trimmed(SplitOn(s, sep))

\* str.strip('()')
IsParenthesis(c) == c \in {"(", ")"}
ParenthesisStart(s) ==
    CHOOSE i \in 1..(Len(s) + 1) :
        /\ \A k \in i..Len(s) : IsParenthesis(s[k])
        /\ i = 1 \/ ~IsParenthesis(s[i - 1])
strip_parentheses(s) ==
    SubSeq(s, RunEnd(s, 1, IsParenthesis) + 1, ParenthesisStart(s) - 1)

\* the tuple (var, is_positive) of a literal
literal_of(lit) ==
    IF lit # <<>> /\ lit[1] \in {"!", "~", NotSign}
    THEN [var |-> strip(Tail(lit)), is_positive |-> FALSE]
    ELSE [var |-> lit, is_positive |-> TRUE]

literals_of(literals) ==
    [i \in DOMAIN literals |-> literal_of(strip(literals[i]))]

\* the terms of a form split on outer, each without its parentheses and
\* split on inner; a term always has a literal, so every term is kept
terms_of(term_strings, inner) ==
    [k \in DOMAIN term_strings |->
       literals_of(re_split(strip_parentheses(strip(term_strings[k])), inner))]

\* CircuitFromBooleanForm._parse_dnf_terms, _parse_cnf_clauses
_parse_dnf_terms(dnf) == terms_of(re_split(dnf, "|"), "&")
_parse_cnf_clauses(cnf) == terms_of(re_split(cnf, "&"), "|")

\* ComponentRegistry.create(component_type, label=label, position=...)
\* followed by self.circuit.add_component: the new object is the last of
\* S.comp, with the label the caller gave
created(S, kind, n, label) ==
    add_component(
        [S EXCEPT
           !.comp = Append(@, [label |-> label] @@ NewComponent(kind, n, "")),
           !.pin = [p \in {<<Len(S.comp) + 1, PinDefs(kind, n)[i].name>> :
                             i \in DOMAIN PinDefs(kind, n)} |->
                      NewPin(PoolPinDef(<<[kind |-> kind, n |-> n]>>,
                                        <<1, p[2]>>))] @@ @],
        Len(S.comp) + 1).S

\* wire = Wire("", start_pin, end_pin); self.circuit.add_wire(wire)
wired(S, start_pin, end_pin) ==
    add_wire([S EXCEPT !.wire = Append(@, NewWire("", start_pin, end_pin))],
             Len(S.wire) + 1).S

\* a builder's progress in a store S: the dicts input_switches and
\* not_gates, the list of the term gates, the final gate, the exception
\* raised, if any, and whether "return False" was reached
Progress(S) ==
    [S |-> S, input_switches |-> <<>>, not_gates |-> <<>>, gates |-> <<>>,
     final |-> 0, exc |-> NoExc, returned_false |-> FALSE]

\* _create_input_switches(variables), from the i-th variable on
RECURSIVE _create_input_switches(_, _, _)
_create_input_switches(B, variables, i) ==
    IF i > Len(variables) THEN B
    ELSE _create_input_switches(
             [B EXCEPT
                !.S = created(@, "Switch", 0, variables[i]),
                !.input_switches = DictSet(@, variables[i], Len(B.S.comp) + 1)],
             variables, i + 1)

NotLabel(var) == <<"N", "O", "T", "_">> \o var

\* the NOT gate of one variable: created, wired from the variable's
\* switch, and entered in not_gates
with_not_gate(B, var) ==
    [B EXCEPT
       !.S = wired(created(@, "NOT", 1, NotLabel(var)),
                   <<DictGet(B.input_switches, var), "out">>,
                   <<Len(B.S.comp) + 1, "in0">>),
       !.not_gates = DictSet(@, var, Len(B.S.comp) + 1)]

\* the same without the wire from the switch
RECURSIVE _create_not_gates_unwired(_, _, _)
_create_not_gates_unwired(B, variables, i) ==
    IF i > Len(variables) THEN B
    ELSE _create_not_gates_unwired(
             [B EXCEPT
                !.S = created(@, "NOT", 1, NotLabel(variables[i])),
                !.not_gates = DictSet(@, variables[i], Len(B.S.comp) + 1)],
             variables, i + 1)

\* _create_not_gates(variables, input_switches), from the i-th variable on
RECURSIVE _create_not_gates(_, _, _)
_create_not_gates(B, variables, i) ==
    IF i > Len(variables) THEN B
    ELSE _create_not_gates(with_not_gate(B, variables[i]), variables, i + 1)

\* the decimal digits of a number below 100
Digits(k) ==
    IF k < 10 THEN <<ToString(k)>>
    ELSE <<ToString(k \div 10), ToString(k % 10)>>

\* for i, (var, is_positive) in enumerate(term): the wires to the gate from
\* the i-th literal on (i from 1), two at most; input_switches[var] and
\* not_gates[var] raise KeyError for a var that is no key
RECURSIVE wire_literals(_, _, _, _)
wire_literals(B, gate, term, i) ==
    IF i > Len(term) \/ i > 2 THEN B
    ELSE IF ~DictHas(IF term[i].is_positive THEN B.input_switches
                     ELSE B.not_gates, term[i].var)
         THEN [B EXCEPT !.exc = "KeyError"]
         ELSE wire_literals(
                  [B EXCEPT
                     !.S = wired(@, <<DictGet(IF term[i].is_positive
                                              THEN B.input_switches
                                              ELSE B.not_gates, term[i].var),
                                      "out">>,
                                 <<gate, InName(i - 1)>>)],
                  gate, term, i + 1)

\* and_gates.append(and_gate) after _create_term_and_gate returned
appended(B, gate) ==
    IF B.exc = NoExc THEN [B EXCEPT !.gates = Append(@, gate)] ELSE B

\* _create_term_and_gate(term, variables, input_switches, not_gates,
\* term_index), term_index from 0
_create_term_and_gate(B, term, term_index) ==
    appended(wire_literals(
                 [B EXCEPT !.S = created(@, "AND", 2,
                                         <<"A", "N", "D">>
                                            \o Digits(term_index + 1))],
                 Len(B.S.comp) + 1, term, 1),
             Len(B.S.comp) + 1)

\* _create_clause_or_gate(clause, variables, input_switches, not_gates,
\* clause_index)
_create_clause_or_gate(B, clause, clause_index) ==
    appended(wire_literals(
                 [B EXCEPT !.S = created(@, "OR", 2,
                                         <<"O", "R">> \o Digits(clause_index + 1))],
                 Len(B.S.comp) + 1, clause, 1),
             Len(B.S.comp) + 1)

\* for i, term in enumerate(terms): ..., from the i-th term on (i from 1),
\* left by the first exception
RECURSIVE term_gates(_, _, _, _)
term_gates(B, terms, kind, i) ==
    IF i > Len(terms) \/ B.exc # NoExc THEN B
    ELSE term_gates(IF kind = "AND"
                    THEN _create_term_and_gate(B, terms[i], i - 1)
                    ELSE _create_clause_or_gate(B, terms[i], i - 1),
                    terms, kind, i + 1)

\* _create_final_or_gate(and_gates) and _create_final_and_gate(or_gates):
\* the final gate, wired from the first two gates
final_gate_of_last_two(B, kind, label) ==
    [B EXCEPT
       !.S = wired(wired(created(@, kind, 2, label),
                         <<B.gates[Len(B.gates) - 1], "out">>,
                         <<Len(B.S.comp) + 1, "in0">>),
                   <<B.gates[Len(B.gates)], "out">>,
                   <<Len(B.S.comp) + 1, "in1">>),
       !.final = Len(B.S.comp) + 1]

final_gate(B, kind, label) ==
    [B EXCEPT
       !.S = wired(wired(created(@, kind, 2, label),
                         <<B.gates[1], "out">>, <<Len(B.S.comp) + 1, "in0">>),
                   <<B.gates[2], "out">>, <<Len(B.S.comp) + 1, "in1">>),
       !.final = Len(B.S.comp) + 1]

_create_final_or_gate(B) ==
    final_gate(B, "OR", <<"O", "R", "_", "F", "I", "N", "A", "L">>)
_create_final_and_gate(B) ==
    final_gate(B, "AND", <<"A", "N", "D", "_", "F", "I", "N", "A", "L">>)

\* _create_output_led(final_gate)
_create_output_led(B) ==
    [B EXCEPT
       !.S = wired(created(@, "LED", 0, <<"O", "u", "t", "p", "u", "t">>),
                   <<B.final, "out">>, <<Len(B.S.comp) + 1, "in">>)]

\* the end of the try block, after the loop over the terms
finished(B, kind) ==
    IF B.exc # NoExc THEN B
    ELSE IF Len(B.gates) > 1
         THEN _create_output_led(IF kind = "AND" THEN _create_final_or_gate(B)
                                 ELSE _create_final_and_gate(B))
    ELSE IF Len(B.gates) = 1
         THEN _create_output_led([B EXCEPT !.final = B.gates[1]])
    ELSE [B EXCEPT !.returned_false = TRUE]

\* the try block: kind is "AND" for build_from_pdnf, "OR" for
\* build_from_pcnf
tried_to_build(S, terms, variables, kind) ==
    IF terms = <<>> THEN [Progress(S) EXCEPT !.returned_false = TRUE]
    ELSE finished(
             term_gates(
                 _create_not_gates(
                     _create_input_switches(Progress(S), variables, 1),
                     variables, 1),
                 terms, kind, 1),
             kind)

\* what the caller gets: the store, the boolean returned, and the exception
\* that left the call, if any
Uncaught(B) ==
    [S |-> B.S, result |-> B.exc = NoExc /\ ~B.returned_false, exc |-> B.exc]

\* except Exception as e: print(...); return False
Caught(B) ==
    [S |-> B.S, result |-> B.exc = NoExc /\ ~B.returned_false, exc |-> NoExc]

build_from_pdnf_uncaught(S, pdnf, variables) ==
    Uncaught(tried_to_build(S, _parse_dnf_terms(pdnf), variables, "AND"))

\* CircuitFromBooleanForm(circuit).build_from_pdnf(pdnf, variables)
build_from_pdnf(S, pdnf, variables) ==
    Caught(tried_to_build(S, _parse_dnf_terms(pdnf), variables, "AND"))

\* CircuitFromBooleanForm(circuit).build_from_pcnf(pcnf, variables)
build_from_pcnf(S, pcnf, variables) ==
    Caught(tried_to_build(S, _parse_cnf_clauses(pcnf), variables, "OR"))

-----------------------------------------------------------------------------
(* The synthesizer called on the canonical forms of the truth tables, and  *)
(* the netlist it built simulated.                                         *)

\* step() calls after which the claim reads the LED
SettleSteps == 5

\* the variable lists a form is built with: the table's own, or a shorter one
Shorter(variables) == {SubSeq(variables, 1, n) : n \in 1..Len(variables)}

InitSynth ==
    /\ NoCircuit
    /\ \E variables \in VariableLists :
         \E outputs \in [1..Pow2(Len(variables)) -> BOOLEAN] :
           \E use_pdnf \in BOOLEAN : \E given \in Shorter(variables) :
             call = [op |-> "Circuit", use_pdnf |-> use_pdnf,
                     table |-> TableOf(variables, outputs),
                     form |-> IF use_pdnf
                              THEN calculate_pdnf(TableOf(variables, outputs))
                              ELSE calculate_pcnf(TableOf(variables, outputs)),
                     variables |-> given, result |-> FALSE, exc |-> NoExc,
                     row |-> 0, steps |-> 0]

\* what a build did: the store it left, and what the caller got
Synthesized(r, op) ==
    /\ SetSt(r.S)
    /\ call' = [call EXCEPT !.op = op, !.result = r.result, !.exc = r.exc]
    /\ UNCHANGED <<sim, hist>>

BuildFromPdnf ==
    /\ call.op = "Circuit"
    /\ call.use_pdnf
    /\ Synthesized(build_from_pdnf(St, call.form, call.variables), "build_from_pdnf")

BuildFromPcnf ==
    /\ call.op = "Circuit"
    /\ ~call.use_pdnf
    /\ Synthesized(build_from_pcnf(St, call.form, call.variables), "build_from_pcnf")

\* the component of a kind that has the label
Labelled(S, kind, label) ==
    CHOOSE c \in DictObjs(S.circuit.components) :
        S.comp[c].kind = kind /\ S.comp[c].label = label

\* switch.set_state(values[var]) for the i-th variable on
RECURSIVE set_switches(_, _, _, _)
set_switches(S, variables, values, i) ==
    IF i > Len(variables) THEN S
    ELSE set_switches(set_state(S, Labelled(S, "Switch", variables[i]),
                                ValueOf(values, variables[i])),
                      variables, values, i + 1)

\* the Switches of a netlist just built set to the inputs of a row of the
\* table
SetSwitches(r) ==
    /\ call.op \in {"build_from_pdnf", "build_from_pcnf"}
    /\ call.result
    /\ SetSt(set_switches(St, call.variables, call.table.rows[r].inputs, 1))
    /\ call' = [call EXCEPT !.op = "set_state", !.row = r]
    /\ UNCHANGED <<sim, hist>>

\* SimulationEngine(circuit).step() on the netlist
StepNetlist ==
    /\ call.op \in {"set_state", "step"}
    /\ call.steps < SettleSteps
    /\ LET r == step(St, sim)
       IN /\ SetSt(r.S)
          /\ sim' = r.E
          /\ call' = [call EXCEPT !.op = "step", !.steps = @ + 1,
                                  !.exc = r.exc]
    /\ UNCHANGED hist

NextSynth ==
    \/ BuildFromPdnf
    \/ BuildFromPcnf
    \/ \E r \in DOMAIN call.table.rows : SetSwitches(r)
    \/ StepNetlist

SpecSynth == InitSynth /\ [][NextSynth]_vars

\* the components of a kind in the circuit, and how many they are
OfKind(kind) == {c \in DictObjs(circuit.components) : comp[c].kind = kind}
Count(kind) == Cardinality(OfKind(kind))

\* a wire of the circuit runs from a pin of one component to a pin of another
WiredFrom(a, out, b, in) ==
    \E w \in DictObjs(circuit.wires) :
        wire[w].start_pin = <<a, out>> /\ wire[w].end_pin = <<b, in>>

\* some input of b is wired from the output of a
FedBy(a, b) == \E i \in {"in", "in0", "in1"} : WiredFrom(a, "out", b, i)

\* one Switch and one NOT gate for each variable of the list, and no others,
\* each NOT gate wired from the Switch of its variable
SwitchesAndNotGates(variables) ==
    /\ Count("Switch") = Len(variables)
    /\ Count("NOT") = Len(variables)
    /\ \A i \in DOMAIN variables :
         \E s \in OfKind("Switch") : \E n \in OfKind("NOT") :
           /\ comp[s].label = variables[i]
           /\ comp[n].label = NotLabel(variables[i])
           /\ WiredFrom(s, "out", n, "in0")

\* the rows of the table where the function is true (the terms of its PDNF)
\* or false (the clauses of its PCNF)
TermsOf(table, use_pdnf) ==
    Cardinality({r \in DOMAIN table.rows : table.rows[r].output = use_pdnf})

\* the form is the PDNF or PCNF of a table with a term at least, built with
\* the table's variables
WellFormed ==
    /\ call.variables = call.table.variables
    /\ TermsOf(call.table, call.use_pdnf) >= 1

AAndB == <<"(", "A", "&", "B", ")">>

WithinTwoInputLimits ==
    /\ WellFormed
    /\ Len(call.table.variables) <= 2
    /\ TermsOf(call.table, call.use_pdnf) <= 2

\* C18: for every PDNF with at most two terms of at most two literals, and
\* every PCNF with at most two clauses of at most two literals, built into a
\* fresh Circuit, after the Switches are set to an assignment and step() is
\* called five times, LED.lit is the value of the form under the assignment.
C18_NetlistRealizesForm ==
    (call.op = "step" /\ call.steps = SettleSteps /\ WithinTwoInputLimits) =>
        \A led \in OfKind("LED") :
            comp[led].attrs.lit = call.table.rows[call.row].output

\* the form is the constant 0 or 1
ConstantForm == call.form \in {<<"0">>, <<"1">>}

\* one of the two literals a term gate is wired from names a variable that
\* is not in the list the form is built with
AbsentVariable ==
    \E i \in 1..2 :
        /\ i <= Len(call.table.variables)
        /\ \A j \in DOMAIN call.variables :
             call.variables[j] # call.table.variables[i]

\* C19: build_from_pdnf and build_from_pcnf never raise; for the constant
\* form 0 or 1, and for a literal naming a variable absent from the variable
\* list, they return false, and where they return false what was added
\* before the failure is still in the Circuit: the Switches, the NOT gates
\* and their wires, and the gate of the term that failed.
C19_BuildNeverRaises ==
    call.op \in {"build_from_pdnf", "build_from_pcnf"} =>
        /\ call.exc = NoExc
        /\ (ConstantForm \/ AbsentVariable) => ~call.result
        /\ ~call.result =>
             /\ SwitchesAndNotGates(call.variables)
             /\ Count(IF call.use_pdnf THEN "AND" ELSE "OR") = 1
             /\ Count("LED") = 0
             /\ Len(circuit.components) = 2 * Len(call.variables) + 1
             /\ Len(circuit.wires) >= Len(call.variables)

\* a build failed at the second literal of a term: the gate and the wire
\* from its first literal are in the Circuit
C19_Witness ==
    /\ call.op = "build_from_pdnf"
    /\ ~call.result
    /\ AbsentVariable
    /\ Count("AND") = 1
    /\ Len(circuit.wires) > Len(call.variables)

\* the rows of the table that give the terms of the form, in their order
TermRows(table, use_pdnf) ==
    SelectSeq(table.rows, LAMBDA row : row.output = use_pdnf)

\* the component the j-th literal of the term of a row is wired from: the
\* Switch of the variable where the literal is positive (the variable true
\* in a PDNF term, false in a PCNF clause), its NOT gate where it is negated
LiteralSource(row, j) ==
    IF ValueOf(row.inputs, call.table.variables[j]) = call.use_pdnf
    THEN Labelled(St, "Switch", call.table.variables[j])
    ELSE Labelled(St, "NOT", NotLabel(call.table.variables[j]))

\* the gate of the k-th term: AND<k> of a PDNF, OR<k> of a PCNF
TermGate(k) ==
    IF call.use_pdnf THEN Labelled(St, "AND", <<"A", "N", "D">> \o Digits(k))
    ELSE Labelled(St, "OR", <<"O", "R">> \o Digits(k))

\* the wires of the circuit that end at a pin of c, and that start at one
WiresInto(c) ==
    {w \in DictObjs(circuit.wires) : wire[w].end_pin[1] = c}
WiresOutOf(c) ==
    {w \in DictObjs(circuit.wires) : wire[w].start_pin[1] = c}

-----------------------------------------------------------------------------
(* The engine's whole interface on the AND circuit: a caller that toggles   *)
(* the switches, writes and reads pins by id and name, and calls step() and *)
(* reset() in any order.                                                    *)

NextEngine ==
    \/ \E c \in DOMAIN comp : Toggle(c)
    \/ \E id \in IdsAsked, name \in PinNamesAsked, value \in BOOLEAN :
         SetInput(id, name, value)
    \/ \E id \in IdsAsked, name \in PinNamesAsked : ToggleInput(id, name)
    \/ \E id \in IdsAsked, name \in PinNamesAsked : GetOutput(id, name)
    \/ Step
    \/ Reset

SpecEngine == InitAnd /\ [][NextEngine]_vars

\* What a graph entity is apart from its signal and its internal state
ComponentIdentity(c) == [id |-> comp[c].id, kind |-> comp[c].kind, pins |-> comp[c].pins]
PinIdentity(p) == [pin[p] EXCEPT !.signal = UNKNOWN]
WireIdentity(w) == IF wire[w] = NoWire THEN NoWire ELSE [wire[w] EXCEPT !.signal = UNKNOWN]

\* C22: step(), reset(), set_input(), toggle_input() and get_output() create
\* and destroy nothing of the graph: the Circuit's components and wires with
\* their ids, both id counters, every wire's id and endpoints and every
\* pin's wire list are after the call what they were before it; signals and
\* the components' internal state are all that may differ.
C22_EngineKeepsGraph ==
    [][call'.op \in {"step", "reset", "set_input", "toggle_input", "get_output"} =>
          /\ circuit' = circuit
          /\ DOMAIN comp' = DOMAIN comp
          /\ DOMAIN pin' = DOMAIN pin
          /\ DOMAIN wire' = DOMAIN wire
          /\ \A c \in DOMAIN comp : ComponentIdentity(c)' = ComponentIdentity(c)
          /\ \A p \in DOMAIN pin : PinIdentity(p)' = PinIdentity(p)
          /\ \A w \in DOMAIN wire : WireIdentity(w)' = WireIdentity(w)]_vars

\* reset() was called on a circuit with components and wires, after steps
\* that lit the LED
C22_Witness ==
    /\ call.op = "reset"
    /\ Len(circuit.components) > 0
    /\ Len(circuit.wires) > 0
    /\ \E c \in DOMAIN comp :
         comp[c].kind = "LED" /\ comp[c].attrs.lit

-----------------------------------------------------------------------------
(* One component on its own: it is constructed, and then a caller drives    *)
(* its input pins with pin.set_signal(Signal(state)) and calls evaluate(),  *)
(* in any order.                                                            *)

\* evaluate() calls made on the component of a sequential specification
MaxEvaluations == 6

\* The arguments the constructors are called with
GateInputCounts == {1, 2, 3}
DecoderInputCounts == {1, 2}
ComparatorWidths == {1, 2, 4}
RegisterWidths == {1, 2}
\* the values assigned to clock.frequency
Frequencies == {1, 2, 3}

\* The component constructed: the first object of the heap
Only == 1

Constructed(kind, n) ==
    /\ comp = PoolComp(<<K(kind, n, "")>>)
    /\ pin = PoolPin(<<K(kind, n, "")>>)
    /\ wire = <<>>
    /\ circuit = NewCircuit
    /\ sim = NewEngine
    /\ call = Call("init", "", 0, FALSE, NoExc)
    /\ hist = [calls |-> 0]

\* NOTGate and BufferGate take no num_inputs: they have one input
InitCombinational ==
    \/ \E kind \in GateKinds \ {"NOT", "Buffer"}, n \in GateInputCounts : Constructed(kind, n)
    \/ \E kind \in {"NOT", "Buffer"} : Constructed(kind, 1)
    \/ \E n \in DecoderInputCounts : Constructed("Decoder", n)
    \/ \E n \in ComparatorWidths : Constructed("Comparator", n)

InputPins == {p \in DOMAIN pin : pin[p].pin_type = INPUT}

\* The states driven: all four, and LOW and HIGH only on a component with
\* more than four input pins (each pin starts UNKNOWN)
StatesDriven == IF Cardinality(InputPins) > 4 THEN {LOW, HIGH} ELSE SignalState

\* pin.set_signal(Signal(state)) on an input pin
PinSetSignal(p, state) ==
    /\ pin[p].pin_type = INPUT
    /\ SetSt(SetSignal(St, p, state))
    /\ call' = Call("set_signal", "", 0, FALSE, NoExc)
    /\ UNCHANGED <<sim, hist>>

\* component.evaluate()
Evaluate(c) ==
    /\ hist.calls < MaxEvaluations
    /\ SetSt(evaluate(St, c).S)
    /\ call' = Call("evaluate", "", c, FALSE, evaluate(St, c).exc)
    /\ hist' = [calls |-> IF comp[c].kind \in {"SRLatch", "Register", "Clock"}
                          THEN hist.calls + 1 ELSE hist.calls]
    /\ UNCHANGED sim

NextComponent ==
    \/ \E p \in DOMAIN pin, state \in StatesDriven : PinSetSignal(p, state)
    \/ Evaluate(Only)

SpecCombinational == InitCombinational /\ [][NextComponent]_vars

InitSequential ==
    \/ Constructed("SRLatch", 0)
    \/ \E n \in RegisterWidths : Constructed("Register", n)
    \/ \E f \in Frequencies :
         /\ comp = [PoolComp(<<K("Clock", 0, "")>>) EXCEPT ![Only].attrs.frequency = f]
         /\ pin = PoolPin(<<K("Clock", 0, "")>>)
         /\ wire = <<>>
         /\ circuit = NewCircuit
         /\ sim = NewEngine
         /\ call = Call("init", "", 0, FALSE, NoExc)
         /\ hist = [calls |-> 0]

SpecSequential == InitSequential /\ [][NextComponent]_vars

\* The component was evaluated last
WasEvaluated(kind) == call.op = "evaluate" /\ comp[Only].kind = kind
\* The call being made is evaluate() on a component of this kind
Evaluating(kind) == call'.op = "evaluate" /\ comp[Only].kind = kind

\* The numbers i of the pins <prefix>i that are HIGH
HighPins(prefix) ==
    {i \in 0..(Cardinality(DOMAIN pin) - 1) :
        <<Only, PinName(prefix, i)>> \in DOMAIN pin
        /\ pin[<<Only, PinName(prefix, i)>>].signal = HIGH}

\* The sum of 2^i over a set of bit numbers
RECURSIVE Weight(_)
Weight(bits) ==
    IF bits = {} THEN 0
    ELSE LET i == CHOOSE j \in bits : TRUE
         IN Pow2(i) + Weight(bits \ {i})

Signal(p) == pin[<<Only, p>>].signal

\* C23: an evaluation of the SR latch sets the stored bit if S is HIGH and R
\* is not, clears it if R is HIGH and S is not, and leaves it as it is when
\* both or neither are HIGH; it drives Q to the stored bit and Q' to its
\* negation.
C23_SRLatchLevelSensitive ==
    [][Evaluating("SRLatch") =>
          /\ comp'[Only].attrs.state =
                (IF Signal("S") = HIGH /\ Signal("R") # HIGH THEN TRUE
                 ELSE IF Signal("R") = HIGH /\ Signal("S") # HIGH THEN FALSE
                 ELSE comp[Only].attrs.state)
          /\ Signal("Q")' = from_bool(comp'[Only].attrs.state)
          /\ Signal("Q'")' = from_bool(~comp'[Only].attrs.state)]_vars

\* The latch was set, and an evaluation with S and R both HIGH has held it
C23_Witness ==
    /\ WasEvaluated("SRLatch")
    /\ Signal("S") = HIGH
    /\ Signal("R") = HIGH
    /\ comp[Only].attrs.state
    /\ Signal("Q") = HIGH
    /\ Signal("Q'") = LOW

\* C24: an evaluation of a Register changes the stored value only when it
\* detects a rising edge of CLK (CLK is HIGH and was not at the evaluation
\* before), and then the value becomes the sum of 2^i over the pins Di that
\* are HIGH; every evaluation drives each Qi to bit i of the stored value.
C24_RegisterCapturesOnEdge ==
    [][Evaluating("Register") =>
          /\ comp'[Only].attrs.value =
                (IF ~comp[Only].attrs.last_clock /\ Signal("CLK") = HIGH
                 THEN Weight(HighPins("D"))
                 ELSE comp[Only].attrs.value)
          /\ \A i \in 0..(comp[Only].attrs.bit_width - 1) :
                Signal(QName(i))' =
                   (IF (comp'[Only].attrs.value \div Pow2(i)) % 2 = 1 THEN HIGH ELSE LOW)]_vars

\* A register of width 2 holds 2 while CLK stays HIGH and the data pins
\* read 1: the evaluation has not captured, and drives Q1 HIGH and Q0 LOW
C24_Witness ==
    /\ WasEvaluated("Register")
    /\ comp[Only].attrs.bit_width = 2
    /\ comp[Only].attrs.value = 2
    /\ Signal("CLK") = HIGH
    /\ HighPins("D") = {0}
    /\ Signal("Q1") = HIGH
    /\ Signal("Q0") = LOW

\* C28: every evaluate() of a Clock whose frequency is at least 1 counts one
\* call; the output toggles on exactly every frequency-th call since
\* construction, when the counter returns to 0, and is driven on out; the
\* counter stays in 0..frequency-1 between calls.
C28_ClockTogglesEveryFrequencyCalls ==
    [][Evaluating("Clock") =>
          /\ (comp'[Only].attrs.state # comp[Only].attrs.state)
                <=> ((hist.calls + 1) % comp[Only].attrs.frequency = 0)
          /\ comp'[Only].attrs.tick_count =
                (IF comp[Only].attrs.tick_count + 1 = comp[Only].attrs.frequency
                 THEN 0 ELSE comp[Only].attrs.tick_count + 1)
          /\ comp'[Only].attrs.tick_count \in 0..(comp[Only].attrs.frequency - 1)
          /\ Signal("out")' = from_bool(comp'[Only].attrs.state)]_vars

\* A clock of frequency 3 after its sixth call: it has toggled twice
C28_Witness ==
    /\ WasEvaluated("Clock")
    /\ comp[Only].attrs.frequency = 3
    /\ hist.calls = 6
    /\ comp[Only].attrs.tick_count = 0
    /\ ~comp[Only].attrs.state
    /\ Signal("out") = LOW

\* C25: after evaluate() of a Comparator, with A and B the LSB-first values
\* of the HIGH pins Ai and Bi, EQ is HIGH iff A = B, GT iff A > B and LT iff
\* A < B, each LOW otherwise, so exactly one of them is HIGH; at width 4
\* with A = 5 and B = 3, EQ is LOW, GT is HIGH and LT is LOW.
C25_ComparatorUnsigned ==
    WasEvaluated("Comparator") =>
       /\ Signal("EQ") = (IF Weight(HighPins("A")) = Weight(HighPins("B")) THEN HIGH ELSE LOW)
       /\ Signal("GT") = (IF Weight(HighPins("A")) > Weight(HighPins("B")) THEN HIGH ELSE LOW)
       /\ Signal("LT") = (IF Weight(HighPins("A")) < Weight(HighPins("B")) THEN HIGH ELSE LOW)
       /\ Cardinality({p \in {"EQ", "GT", "LT"} : Signal(p) = HIGH}) = 1
       /\ (comp[Only].attrs.bit_width = 4 /\ HighPins("A") = {0, 2} /\ HighPins("B") = {0, 1})
             => Signal("EQ") = LOW /\ Signal("GT") = HIGH /\ Signal("LT") = LOW

\* The comparator of width 4 was evaluated with A = 5 and B = 3
C25_Witness ==
    /\ WasEvaluated("Comparator")
    /\ comp[Only].attrs.bit_width = 4
    /\ HighPins("A") = {0, 2}
    /\ HighPins("B") = {0, 1}
    /\ Signal("GT") = HIGH

\* C26: after evaluate() of a Decoder with n inputs, whatever the states of
\* its input pins, output Ov is HIGH for v the LSB-first value of the HIGH
\* input pins, and every other of the 2^n outputs is LOW.
C26_DecoderOneHot ==
    WasEvaluated("Decoder") =>
       /\ Cardinality({p \in DOMAIN pin : pin[p].pin_type = OUTPUT})
             = Pow2(Cardinality(InputPins))
       /\ \A i \in 0..(Pow2(Cardinality(InputPins)) - 1) :
             Signal(PinName("O", i)) = (IF i = Weight(HighPins("I")) THEN HIGH ELSE LOW)
       /\ Cardinality({p \in DOMAIN pin : pin[p].pin_type = OUTPUT /\ pin[p].signal = HIGH}) = 1

\* The decoder with two inputs was evaluated with I0 UNKNOWN and I1 HIGH:
\* O2 alone is HIGH
C26_Witness ==
    /\ WasEvaluated("Decoder")
    /\ Cardinality(InputPins) = 2
    /\ Signal("I0") = UNKNOWN
    /\ Signal("I1") = HIGH
    /\ Signal("O2") = HIGH
    /\ Signal("O0") = LOW

\* The numbers of the inputs of a gate that are true: those that are HIGH
TrueInputs == HighPins("in")

\* C27: after evaluate() of a gate with n >= 1 inputs in any states, an
\* input counting as true iff it is HIGH, out is HIGH or LOW as the gate's
\* function of the inputs is true or false: AND all true, OR some true,
\* NAND and NOR their negations, XOR an odd number true, XNOR an even
\* number, NOT in0 false, Buffer in0 true; out is never left UNKNOWN.
C27_GateFunctions ==
    (call.op = "evaluate" /\ comp[Only].kind \in GateKinds) =>
       /\ Signal("out") \in {LOW, HIGH}
       /\ (Signal("out") = HIGH) <=>
             CASE comp[Only].kind = "AND" -> Cardinality(TrueInputs) = Cardinality(InputPins)
               [] comp[Only].kind = "OR" -> TrueInputs # {}
               [] comp[Only].kind = "NAND" -> Cardinality(TrueInputs) # Cardinality(InputPins)
               [] comp[Only].kind = "NOR" -> TrueInputs = {}
               [] comp[Only].kind = "XOR" -> Cardinality(TrueInputs) % 2 = 1
               [] comp[Only].kind = "XNOR" -> Cardinality(TrueInputs) % 2 = 0
               [] comp[Only].kind = "NOT" -> 0 \notin TrueInputs
               [] comp[Only].kind = "Buffer" -> 0 \in TrueInputs

\* An XOR gate with three inputs was evaluated with in0 and in2 HIGH and
\* in1 floating: two inputs are true and out is LOW
C27_Witness ==
    /\ WasEvaluated("XOR")
    /\ Cardinality(InputPins) = 3
    /\ Signal("in0") = HIGH
    /\ Signal("in1") = HIGHZ
    /\ Signal("in2") = HIGH
    /\ Signal("out") = LOW

\* C29: clear() leaves the Circuit with no components, no wires and both
\* id counters at 0, and get_component finds none of the ids it held; with
\* a counter at 0, a component added with a blank id becomes comp_0 and a
\* wire added with a blank id becomes wire_0.
C29_ClearStartsOver ==
    [][/\ call'.op = "clear" =>
             /\ circuit'.components = <<>>
             /\ circuit'.wires = <<>>
             /\ circuit'.next_component_id = 0
             /\ circuit'.next_wire_id = 0
             /\ \A id \in DictKeys(circuit.components) : ~DictHas(circuit'.components, id)
       /\ (call'.op = "add_component" /\ call'.blank /\ circuit.next_component_id = 0)
             => call'.id = "comp_0" /\ DictHas(circuit'.components, "comp_0")
       /\ (call'.op = "add_wire" /\ call'.blank /\ circuit.next_wire_id = 0)
             => call'.id = "wire_0" /\ DictHas(circuit'.wires, "wire_0")]_vars

\* Two components were added with blank ids, the Circuit was cleared, and
\* the third component added with a blank id is comp_0 again
C29_Witness ==
    /\ call.op = "add_component"
    /\ call.blank
    /\ call.id = "comp_0"
    /\ circuit.next_component_id = 1
    /\ Len(circuit.components) = 1
    /\ \E c \in DOMAIN comp : comp[c].id = "comp_1"

-----------------------------------------------------------------------------
(* A Clock whose frequency was assigned after construction, gated by a      *)
(* Switch into an LED; the caller toggles the switch and calls step() and   *)
(* reset() in any order.                                                    *)

DividerPool ==
    <<K("Clock", 0, "clk"), K("Switch", 0, "en"), K("AND", 2, "gate"), K("LED", 0, "led")>>

DividerWires ==
    <<W("d1", <<"clk", "out">>, <<"gate", "in0">>),
      W("d2", <<"en", "out">>, <<"gate", "in1">>),
      W("d3", <<"gate", "out">>, <<"led", "in">>)>>

InitDivider ==
    \E f \in Frequencies :
       /\ LET S == Built(DividerPool, DividerWires)
          IN /\ comp = [S.comp EXCEPT ![Made(DividerPool, "clk")].attrs.frequency = f]
             /\ pin = S.pin
             /\ wire = S.wire
             /\ circuit = S.circuit
             /\ hist = [since |-> [c \in Switches(S) |-> -1], edges |-> <<>>]
       /\ sim = NewEngine
       /\ call = Call("init", "", 0, FALSE, NoExc)

NextDivider ==
    \/ \E c \in DOMAIN comp : Toggle(c)
    \/ Step
    \/ Reset

SpecDivider == InitDivider /\ [][NextDivider]_vars

\* C30: step() reports the non-convergence warning only when the last pass
\* it was allowed still changed an output pin: a step whose evaluation
\* stopped on a pass that changed nothing reports no warning, also when
\* that pass was the last one permitted.
C30_WarningOnlyWithoutFixedPoint ==
    (call.op = "step" /\ call.warned) => call.changed

-----------------------------------------------------------------------------
(* A circuit without a Clock and with feedback: a D flip-flop whose Q' is   *)
(* wired back to its D, a JK flip-flop with J and K on one Switch, both     *)
(* clocked by a Switch, and an inverter wired to itself.                    *)

FeedbackPool ==
    <<K("Switch", 0, "clk"), K("Switch", 0, "t"), K("DFlipFlop", 0, "ff"),
      K("JKFlipFlop", 0, "jk"), K("NOT", 1, "inv")>>

FeedbackWires ==
    <<W("f1", <<"clk", "out">>, <<"ff", "CLK">>),
      W("f2", <<"ff", "Q'">>, <<"ff", "D">>),
      W("f3", <<"clk", "out">>, <<"jk", "CLK">>),
      W("f4", <<"t", "out">>, <<"jk", "J">>),
      W("f5", <<"t", "out">>, <<"jk", "K">>),
      W("f6", <<"inv", "out">>, <<"inv", "in0">>)>>

InitFeedback == InitBuilt(FeedbackPool, FeedbackWires)

NextFeedback ==
    \/ \E c \in DOMAIN comp : Toggle(c)
    \/ Step
    \/ Reset

SpecFeedback == InitFeedback /\ [][NextFeedback]_vars

\* The Circuit holds no Clock
NoClock == \A c \in DictObjs(circuit.components) : comp[c].kind # "Clock"

\* evaluate() of component c a second time on store S, its pins untouched
\* in between, changes nothing
Idempotent(S, c) == evaluate(evaluate(S, c).S, c).S = evaluate(S, c).S

-----------------------------------------------------------------------------
(* A Switch, a chain of inverters and an LED; the caller toggles the        *)
(* switch and calls step() and reset() in any order.                        *)

ChainLengths == {1, 2, 3}

GateId(i) == "g" \o ToString(i)

\* The output that feeds stage i + 1 of the chain
StageOut(i) == IF i = 0 THEN <<"s", "out">> ELSE <<GateId(i), "out">>

ChainPool(k) ==
    <<K("Switch", 0, "s")>> \o [i \in 1..k |-> K("NOT", 1, GateId(i))] \o <<K("LED", 0, "led")>>

ChainWires(k) ==
    [i \in 1..k |-> W("c" \o ToString(i), StageOut(i - 1), <<GateId(i), "in0">>)]
    \o <<W("c" \o ToString(k + 1), StageOut(k), <<"led", "in">>)>>

InitChain == \E k \in ChainLengths : InitBuilt(ChainPool(k), ChainWires(k))

NextChain ==
    \/ \E c \in DOMAIN comp : Toggle(c)
    \/ Step
    \/ Reset

SpecChain == InitChain /\ [][NextChain]_vars

\* The Pin object of a component given by id
PinOf(p) == <<get_component(p[1]), p[2]>>

\* The gates of the chain
ChainLength == Cardinality({c \in DOMAIN comp : comp[c].kind = "NOT"})

\* n more step() calls from [S, E]
RECURSIVE StepsAfter(_, _)
StepsAfter(r, n) == IF n = 0 THEN r ELSE StepsAfter(step(r.S, r.E), n - 1)

\* Stores S and T differ at most in component c's internal state and in
\* the signals of its own OUTPUT pins
OnlyOwnOutputs(S, T, c) ==
    /\ T.circuit = S.circuit
    /\ T.wire = S.wire
    /\ \A d \in DOMAIN S.comp : d # c => T.comp[d] = S.comp[d]
    /\ [T.comp[c] EXCEPT !.attrs = S.comp[c].attrs] = S.comp[c]
    /\ \A p \in DOMAIN S.pin :
          (p[1] # c \/ S.pin[p].pin_type # OUTPUT) => T.pin[p] = S.pin[p]
    /\ \A p \in DOMAIN S.pin : [T.pin[p] EXCEPT !.signal = S.pin[p].signal] = S.pin[p]

\* The evaluation of step() that starts on store P leaves every INPUT pin
\* and every wire as they are
InputsKept(P) ==
    /\ \A p \in DOMAIN pin :
          pin[p].pin_type = INPUT =>
             evaluate_circuit(NewPass(P), 0).S.pin[p] = P.pin[p]
    /\ evaluate_circuit(NewPass(P), 0).S.wire = P.wire

\* C32: the evaluation of step() changes no INPUT pin: evaluate() of a
\* component writes its own OUTPUT pins and its internal state and nothing
\* else, and the wires are propagated before and after the evaluation
\* only.  So a step() moves a value across one component: in a chain
\* Switch -> k inverters -> LED each inverter's output after the step is
\* the negation of what fed it before the step, the LED shows what fed it
\* before the step, and k + 1 step() calls after a toggle the LED shows
\* the new value.
C32_OneComponentPerStep ==
    [][/\ InputsKept(propagate_signals(St, 1))
       /\ \A c \in DictObjs(circuit.components) :
             OnlyOwnOutputs(propagate_signals(St, 1),
                            evaluate(propagate_signals(St, 1), c).S, c)
       /\ call'.op = "step" =>
             /\ \A i \in 1..ChainLength :
                   pin'[PinOf(StageOut(i))].signal =
                      (IF pin[PinOf(StageOut(i - 1))].signal = HIGH THEN LOW ELSE HIGH)
             /\ comp'[get_component("led")].attrs.lit =
                   (pin[PinOf(StageOut(ChainLength))].signal = HIGH)
       /\ call'.op = "toggle" =>
             StepsAfter([S |-> St', E |-> sim'], ChainLength + 1)
                   .S.comp[get_component("led")].attrs.lit
                = (IF ChainLength % 2 = 1
                   THEN ~comp'[get_component("s")].attrs.state
                   ELSE comp'[get_component("s")].attrs.state)]_vars

\* Two step() calls after the switch of the chain of two inverters was
\* turned on, the change has crossed both inverters and not yet the LED
C32_Witness ==
    /\ call.op = "step"
    /\ ChainLength = 2
    /\ comp[get_component("s")].attrs.state
    /\ hist.since[get_component("s")] = 2
    /\ pin[PinOf(StageOut(1))].signal = LOW
    /\ pin[PinOf(StageOut(2))].signal = HIGH
    /\ ~comp[get_component("led")].attrs.lit

-----------------------------------------------------------------------------
(* The D flip-flop circuit after the caller has set both switches and       *)
(* called step() twice, so that the flip-flop has sampled the level of      *)
(* clk; from then on clk is left alone: the caller toggles d and calls      *)
(* step() and reset() in any order.                                         *)

\* step() calls that let the flip-flop sample the clock before it is held
SampledSteps == 2

HeldAfter(clock, data) ==
    StepsAfter([S |-> set_state(set_state(Built(DFFPool, DFFWires),
                                          Made(DFFPool, "clk"), clock),
                                Made(DFFPool, "d"), data),
                E |-> NewEngine],
               SampledSteps)

InitHeldClock ==
    \E clock \in BOOLEAN, data \in BOOLEAN :
       /\ comp = HeldAfter(clock, data).S.comp
       /\ pin = HeldAfter(clock, data).S.pin
       /\ wire = HeldAfter(clock, data).S.wire
       /\ circuit = HeldAfter(clock, data).S.circuit
       /\ sim = HeldAfter(clock, data).E
       /\ hist = [since |-> [c \in Switches(HeldAfter(clock, data).S) |-> -1],
                  edges |-> <<>>]
       /\ call = Call("init", "", 0, FALSE, NoExc)

NextHeldClock ==
    \/ Toggle(get_component("d"))
    \/ Step
    \/ Reset

SpecHeldClock == InitHeldClock /\ [][NextHeldClock]_vars

\* C33: while the Switch on CLK of the D flip-flop stays as it is, no
\* step() and no reset() changes the bit the flip-flop stores, whatever D
\* is: reset() makes no later step() detect a rising edge.
C33_ResetMakesNoEdge ==
    [][comp'[get_component("ff")].attrs.state = comp[get_component("ff")].attrs.state]_vars

\* The Clocks of the Circuit whose frequency is 1
FastClocks ==
    {c \in DictObjs(circuit.components) :
        comp[c].kind = "Clock" /\ comp[c].attrs.frequency = 1}

\* The wires of the Circuit that start at the out pin of component c
WiresFromOut(c) ==
    {w \in DictObjs(circuit.wires) : wire[w].start_pin = <<c, "out">>}

\* b negated n times
Toggled(b, n) == IF n % 2 = 1 THEN ~b ELSE b

\* C34: with a Clock of frequency 1 in the circuit every step() makes all
\* SIM_MAX_PROPAGATION_DEPTH passes, each of them changing the Clock's
\* output, and reports the non-convergence warning; the Clock's state after
\* the step is its state before toggled once per pass, and that is the
\* signal on its wire and on the pin the wire ends at.
C34_FastClockNeverConverges ==
    [][(call'.op = "step" /\ FastClocks # {}) =>
          /\ call'.passes = SIM_MAX_PROPAGATION_DEPTH
          /\ call'.changed
          /\ call'.warned
          /\ \A c \in FastClocks :
                /\ comp'[c].attrs.state =
                      Toggled(comp[c].attrs.state, SIM_MAX_PROPAGATION_DEPTH)
                /\ pin'[<<c, "out">>].signal = from_bool(comp'[c].attrs.state)
                /\ \A w \in WiresFromOut(c) :
                      /\ wire'[w].signal = from_bool(comp'[c].attrs.state)
                      /\ pin'[wire[w].end_pin].signal = from_bool(comp'[c].attrs.state)]_vars

\* The second step() of the circuit with a Clock of frequency 1: the
\* warning was reported and the wire from the Clock carries its state
C34_Witness ==
    /\ call.op = "step"
    /\ FastClocks # {}
    /\ sim.tick_count = 2
    /\ call.warned
    /\ call.passes = SIM_MAX_PROPAGATION_DEPTH
    /\ \A c \in FastClocks : \A w \in WiresFromOut(c) :
          wire[w].signal = from_bool(comp[c].attrs.state)

\* Wire object w is in the connected_wires list of Pin object p
Lists(p, w) == \E i \in 1..Len(pin[p].connected_wires) : pin[p].connected_wires[i] = w

\* C35: after any add_component, add_wire, remove_component, remove_wire
\* and clear calls, a pin lists a wire if and only if the Circuit holds
\* the wire and the pin is one of its two endpoints.
C35_BackReferencesConsistent ==
    \A p \in DOMAIN pin : \A w \in DOMAIN wire :
       wire[w] # NoWire =>
          (Lists(p, w) <=> (/\ w \in DictObjs(circuit.wires)
                            /\ p \in {wire[w].start_pin, wire[w].end_pin}))

\* The orders of a map of n entries
MapOrders(n) ==
    {f \in [1..n -> 1..n] : \A i \in 1..n : \A j \in 1..n : f[i] = f[j] => i = j}

\* Store S with the entries of circuit.components in the order f
Reordered(S, f) ==
    [S EXCEPT !.circuit.components = [i \in 1..Len(S.circuit.components) |->
                                         S.circuit.components[f[i]]]]

\* What step() returned twice is the same but for the order of the
\* component map: the components' internal state, the pin and wire
\* signals, the wire map, the engine, the passes and the warning
SameButOrder(a, b) ==
    /\ a.S.comp = b.S.comp
    /\ a.S.pin = b.S.pin
    /\ a.S.wire = b.S.wire
    /\ a.S.circuit.wires = b.S.circuit.wires
    /\ a.E = b.E
    /\ a.passes = b.passes
    /\ a.warned = b.warned
    /\ a.exc = b.exc

\* C36: step() on the circuit with its component map in any other order
\* gives the same internal states, pin signals and wire signals as step()
\* on the circuit as it is; the two circuits being equal again after the
\* step, they stay equal through any sequence of step() calls.
C36_InsertionOrderIrrelevant ==
    \A f \in MapOrders(Len(circuit.components)) :
       SameButOrder(step(St, sim), step(Reordered(St, f), sim))

\* Steps were made on the circuit of four components, the Clock has
\* toggled and the gate has passed its output on
C36_Witness ==
    /\ call.op = "step"
    /\ Len(circuit.components) = 4
    /\ sim.tick_count >= 2
    /\ comp[get_component("led")].attrs.lit
    /\ step(St, sim).S.comp # comp

-----------------------------------------------------------------------------
(* A circuit holding base Components, whose evaluate() raises: one that was *)
(* given an OUTPUT pin with add_pin and stands between the others in the    *)
(* component map, and one without pins at its end.                          *)

FailingPool ==
    <<K("Switch", 0, "a"), K("Component", 1, "raw"), K("Switch", 0, "b"),
      K("LED", 0, "x"), K("LED", 0, "y"), K("Component", 0, "bare")>>

FailingWires ==
    <<W("e1", <<"a", "out">>, <<"raw", "out">>),
      W("e2", <<"raw", "out">>, <<"y", "in">>),
      W("e3", <<"b", "out">>, <<"x", "in">>)>>

InitFailing == InitBuilt(FailingPool, FailingWires)

NextFailing ==
    \/ \E c \in DOMAIN comp : Toggle(c)
    \/ Step
    \/ Reset

SpecFailing == InitFailing /\ [][NextFailing]_vars

\* The components whose evaluate() raises
Failing == {c \in DOMAIN comp : comp[c].kind = "Component"}

\* Component c and its pins are in T as its evaluate() leaves them in S
EvaluatedAs(S, T, c) ==
    /\ T.comp[c] = evaluate(S, c).S.comp[c]
    /\ \A name \in get_output_pins(S, c) :
          T.pin[<<c, name>>].signal = evaluate(S, c).S.pin[<<c, name>>].signal

\* Every wire held by the circuit carries the signal of its start pin, and
\* so does its end pin
Propagated(S) ==
    \A w \in DictObjs(S.circuit.wires) :
       /\ S.wire[w].signal = S.pin[S.wire[w].start_pin].signal
       /\ S.pin[S.wire[w].end_pin].signal = S.pin[S.wire[w].start_pin].signal

\* C37: a step() on a circuit with components whose evaluate() raises does
\* not raise; every other component is as its evaluate() leaves it on the
\* pins propagated at the start of the step; the evaluation leaves the
\* output pins of the failing components as they were; and the final
\* propagation is made, every wire and end pin carrying its start pin's
\* signal after the step.
C37_FailingEvaluateIsolated ==
    [][call'.op = "step" =>
          /\ call'.exc = NoExc
          /\ sim'.tick_count = sim.tick_count + 1
          /\ \A c \in DOMAIN comp \ Failing :
                EvaluatedAs(propagate_signals(St, 1), St', c)
          /\ \A c \in Failing :
                /\ comp'[c] = comp[c]
                /\ \A name \in get_output_pins(St, c) :
                      evaluate_circuit(NewPass(propagate_signals(St, 1)), 0)
                          .S.pin[<<c, name>>].signal
                      = propagate_signals(St, 1).pin[<<c, name>>].signal
          /\ Propagated(St')]_vars

\* A step was made on the circuit with the two failing components: the
\* switch placed after the first of them drives its LED, and the pin of the
\* failing component carries the HIGH that the wire put on it
C37_Witness ==
    /\ call.op = "step"
    /\ call.exc = NoExc
    /\ Failing # {}
    /\ comp[get_component("x")].attrs.lit
    /\ pin[<<get_component("raw"), "out">>].signal = HIGH
    /\ comp[get_component("y")].attrs.lit

=============================================================================
